---- MODULE Spec2Model ----
(***************************************************************************)
(* SearchOrchestrator (lib/api/orchestrator.ts): the iterative search      *)
(* controller.  One run of search() is modelled as a state machine whose   *)
(* steps are the stretches of code between two awaits; the replies of the  *)
(* generation service and of the search service are the inputs of the      *)
(* steps that resume from the await.                                       *)
(***************************************************************************)
EXTENDS Integers, Sequences, FiniteSets, TLC

VARIABLES config, pc, queryGenResponse, searchQueries, pending, allSearchResults,
          currentIteration, analysisResponse, followupResponse,
          aggregatedResults, answerOutcome, answerResponse, result,
          stopReason, calls, args, returned

vars == <<config, pc, queryGenResponse, searchQueries, pending, allSearchResults,
          currentIteration, analysisResponse, followupResponse,
          aggregatedResults, answerOutcome, answerResponse, result,
          stopReason, calls, args, returned>>

(***************************************************************************)
(* Bounds of the model.                                                    *)
(***************************************************************************)
\* largest maxSearchIterations a configuration of the model carries
MaxIterations == 3
\* number of distinct result URLs the search service can return
NumUrls == 3
\* largest number of queries one generation reply can carry
MaxQueries == 2
\* the most chunks an answer stream delivers
MaxChunks == 2

(***************************************************************************)
(* Program constants.                                                      *)
(***************************************************************************)
DefaultMaxSearchResults == 10
DefaultCompletenessThreshold == 80
FallbackCompleteness == 50
FallbackConfidence == 30
NoContentCompleteness == 10
NoContentConfidence == 20

Min(a, b) == IF a <= b THEN a ELSE b
Max(a, b) == IF a >= b THEN a ELSE b

(***************************************************************************)
(* SearchOrchestrationConfig: the fields search() reads.                   *)
(***************************************************************************)
\* maxFollowupQueries is 2 in every configuration: the smallest cap under
\* which a follow-up round is a fan-out and a longer reply is truncated.
Configs ==
  [ enableQueryGeneration : BOOLEAN,
    enableIterativeSearch : BOOLEAN,
    maxSearchIterations   : 0..MaxIterations,
    completenessThreshold : {DefaultCompletenessThreshold},
    maxSearchResults      : {NumUrls - 1, DefaultMaxSearchResults},
    maxGeneratedQueries   : {MaxQueries},
    maxFollowupQueries    : {2} ]

(***************************************************************************)
(* Search results.  An item is identified by its link.                     *)
(***************************************************************************)
Urls == 1..NumUrls

Item(u, t) == [link |-> u, title |-> t]

\* the item lists one search response of a run carries: no item or one item
ItemLists == {<<>>} \cup { <<Item(u, u)>> : u \in Urls }

SearchResponse(items) == [items |-> items]

\* the exchanges of CustomSearchClient.search that end in an error result:
\* an HTTP error status, a failed exchange
SearchFailures == { [kind |-> "http_error", status |-> "403"],
                    [kind |-> "network_error"] }

\* the outcomes of the HTTP exchange behind CustomSearchClient.search and
\* searchWithFocus
SearchOutcomes ==
  { [kind |-> "ok", data |-> SearchResponse(is)] : is \in ItemLists }
    \cup SearchFailures

\* a search promise of the fan-out may also be rejected
PromiseOutcomes == SearchOutcomes \cup { [kind |-> "rejected"] }

(***************************************************************************)
(* ApiResponse<T>: a tagged success/error result.                          *)
(***************************************************************************)
Ok(d) == [success |-> TRUE, data |-> d]
Err(c, det) == [success |-> FALSE, error |-> [code |-> c, details |-> det]]
Unset == Err("UNSET", "none")

\* CustomSearchClient.search: the outcome of the HTTP exchange becomes an
\* ApiResponse; the code of an HTTP error is errorData.error?.code ||
\* response.status
search(outcome) ==
  CASE outcome.kind = "ok"            -> Ok(outcome.data)
    [] outcome.kind = "http_error"    -> Err(outcome.status, "http")
    [] outcome.kind = "network_error" -> Err("UNKNOWN_ERROR", "none")

(***************************************************************************)
(* Queries.  A query string is a body, possibly still carrying the         *)
(* "<N>. " prefix of the reply line it was taken from.                     *)
(***************************************************************************)
\* a string is its text, whether "<N>. " precedes the text and whether
\* the whole is padded: one blank before it and one after it
QueryStr(b) == [body |-> b, prefixed |-> FALSE, padded |-> FALSE]
OriginalQuery == QueryStr("orig")
QueryBodies == {"orig", "q1", "q2", "q3"}

(***************************************************************************)
(* GeminiClient.generateContent: the outcome of the HTTP exchange becomes  *)
(* an ApiResponse; nothing is thrown to the caller.  A reply of status 200 *)
(* whose JSON body is null is a success that carries no data.              *)
(***************************************************************************)
NoText == [kind |-> "empty"]

\* data: null
NoData == [kind |-> "null"]

generateContent(outcome) ==
  CASE outcome.kind = "ok"            -> Ok([text |-> outcome.text])
    [] outcome.kind = "no_data"       -> Ok(NoData)
    [] outcome.kind = "http_error"    -> Err(outcome.status, "http")
    [] outcome.kind = "network_error" -> Err("UNKNOWN_ERROR", "none")

\* !response.success || !response.data
GenerationFailed(response) == ~response.success \/ response.data = NoData

\* response.error: undefined on a success without data
ErrorDetails(response) == IF response.success THEN "none" ELSE response.error.code

\* response.data?.candidates?.[0]?.content?.parts?.[0]?.text is falsy
TextMissing(response) == response.data.text.kind = "empty"

\* An outcome of kind "thrown" is an exception inside the try of the caller:
\* the call is rejected, or the text of the reply is not a string and
\* generatedText.replace throws.

\* the replies that are no usable success: an HTTP error status, a failed
\* exchange, a body without data
HttpFailures == { [kind |-> "http_error", status |-> "429"],
                  [kind |-> "network_error"],
                  [kind |-> "no_data"] }

(***************************************************************************)
(* GeminiClient.generateSearchAnswer                                       *)
(***************************************************************************)
\* changed: empty generated text is returned as a success
generateSearchAnswerKeepsEmpty(outcome) ==
  LET response == generateContent(outcome) IN
    IF GenerationFailed(response)
      THEN IF response.success THEN Err("GENERATION_FAILED", "none")
           ELSE [success |-> FALSE, error |-> response.error]
      ELSE Ok(response.data.text)

\* error: response.error || { code: 'GENERATION_FAILED' }
generateSearchAnswer(outcome) ==
  LET response == generateContent(outcome) IN
    IF GenerationFailed(response)
      THEN IF response.success THEN Err("GENERATION_FAILED", "none")
           ELSE [success |-> FALSE, error |-> response.error]
      ELSE IF TextMissing(response)
        THEN Err("NO_CONTENT", "none")
        ELSE Ok(response.data.text)

AnswerOutcomes ==
  HttpFailures \cup { [kind |-> "ok", text |-> NoText],
                      [kind |-> "ok", text |-> [kind |-> "answer"]] }

(***************************************************************************)
(* aggregateResults: flatten in batch order, keep the first occurrence of  *)
(* every link, truncate to maxSearchResults.                               *)
(***************************************************************************)
\* changed: the first item of every batch is left out
RECURSIVE FlatItemsSkipsFirst(_)
FlatItemsSkipsFirst(searchResponses) ==
  IF searchResponses = <<>> THEN <<>>
  ELSE (IF Head(searchResponses).items = <<>> THEN <<>>
        ELSE Tail(Head(searchResponses).items))
         \o FlatItemsSkipsFirst(Tail(searchResponses))

RECURSIVE FlatItems(_)
FlatItems(searchResponses) ==
  IF searchResponses = <<>> THEN <<>>
  ELSE Head(searchResponses).items \o FlatItems(Tail(searchResponses))

\* changed: only a repetition of the item just before is dropped
RECURSIVE UniqueItemsAdjacent(_, _)
UniqueItemsAdjacent(allItems, seenUrls) ==
  IF allItems = <<>> THEN <<>>
  ELSE IF Head(allItems).link \in seenUrls
    THEN UniqueItemsAdjacent(Tail(allItems), seenUrls)
    ELSE <<Head(allItems)>>
           \o UniqueItemsAdjacent(Tail(allItems), {Head(allItems).link})

RECURSIVE UniqueItems(_, _)
UniqueItems(allItems, seenUrls) ==
  IF allItems = <<>> THEN <<>>
  ELSE IF Head(allItems).link \in seenUrls
    THEN UniqueItems(Tail(allItems), seenUrls)
    ELSE <<Head(allItems)>>
           \o UniqueItems(Tail(allItems), seenUrls \cup {Head(allItems).link})

\* changed: one item more than asked for is kept
SliceOneMore(s, n) == SubSeq(s, 1, Min(Len(s), n + 1))

\* slice(0, n)
Slice(s, n) == SubSeq(s, 1, Min(Len(s), n))

\* changed: the last occurrence of a link is kept in place of the first
Reverse(s) == [i \in 1..Len(s) |-> s[Len(s) + 1 - i]]

aggregateResultsKeepLast(searchResponses, cfg) ==
  SearchResponse(Slice(Reverse(UniqueItems(Reverse(FlatItems(searchResponses)), {})),
                       cfg.maxSearchResults))

\* changed: the truncation keeps the items found last
aggregateResultsNewest(searchResponses, cfg) ==
  SearchResponse(Reverse(Slice(Reverse(UniqueItems(FlatItems(searchResponses), {})),
                               cfg.maxSearchResults)))

aggregateResults(searchResponses, cfg) ==
  SearchResponse(Slice(UniqueItems(FlatItems(searchResponses), {}),
                       cfg.maxSearchResults))

\* searchResponses.reduce((total, result) => total + result.items.length, 0)
TotalItems(searchResponses) == Len(FlatItems(searchResponses))

\* CustomSearchClient.extractContentForSynthesis: one text per result item
extractContentForSynthesis(searchResponse) ==
  [i \in 1..Len(searchResponse.items) |-> searchResponse.items[i].link]

\* changed: the sources are numbered from 0
extractSourcesFromZero(searchResponse) ==
  [i \in 1..Len(searchResponse.items) |->
     [url |-> searchResponse.items[i].link,
      title |-> searchResponse.items[i].title,
      index |-> i - 1]]

\* searchResponse.items.map((item, index) => ({ ..., index: index + 1 }))
extractSources(searchResponse) ==
  [i \in 1..Len(searchResponse.items) |->
     [url |-> searchResponse.items[i].link,
      title |-> searchResponse.items[i].title,
      index |-> i]]

(***************************************************************************)
(* Values of the JSON payload of an analysis reply, before validation.     *)
(***************************************************************************)
Num(n) == [t |-> "num", v |-> n]
Bool(b) == [t |-> "bool", v |-> b]
Arr(a) == [t |-> "array", v |-> a]
Str == [t |-> "str"]
Missing == [t |-> "missing"]

\* the value JavaScript calls NaN: every comparison with it is false
NaN == -1
Geq(a, b) == a # NaN /\ b # NaN /\ a >= b

\* Math.max(0, Math.min(100, raw || 0))
\* a string is text that is not a number, an array holds such strings
ClampScore(raw) ==
  CASE raw.t = "num"   -> Max(0, Min(100, raw.v))
    [] raw.t = "str"   -> NaN
    [] raw.t = "bool"  -> IF raw.v THEN 1 ELSE 0
    [] raw.t = "array" -> IF raw.v = <<>> THEN 0 ELSE NaN
    [] OTHER           -> 0

\* Array.isArray(raw) ? raw : []
ToArray(raw) == IF raw.t = "array" THEN raw.v ELSE <<>>

\* Boolean(raw)
ToBoolean(raw) ==
  CASE raw.t = "bool" -> raw.v
    [] raw.t = "num"  -> raw.v # 0
    [] raw.t = "str"  -> TRUE
    [] raw.t = "array" -> TRUE
    [] OTHER          -> FALSE

GapCategories(f, c, v, d) ==
  [factual |-> f, contextual |-> c, verification |-> v, depth |-> d]

FallbackAnalysis ==
  [completeness    |-> FallbackCompleteness,
   informationGaps |-> <<"Unable to properly analyze search results">>,
   gapCategories   |-> GapCategories(<<"parsing failed">>, <<"contextual completeness">>,
                                     <<>>, <<"information depth">>),
   followupTopics  |-> <<"orig additional information">>,
   confidenceLevel |-> FallbackConfidence,
   needsMoreSearch |-> TRUE]

EmptyResultsAnalysis ==
  [completeness    |-> 0,
   informationGaps |-> <<"No search results available">>,
   gapCategories   |-> GapCategories(<<"No factual information found">>,
                                     <<"No contextual information available">>,
                                     <<>>, <<"No detailed information available">>),
   followupTopics  |-> <<>>,
   confidenceLevel |-> 0,
   needsMoreSearch |-> TRUE]

NoContentAnalysis ==
  [completeness    |-> NoContentCompleteness,
   informationGaps |-> <<"No meaningful content extracted from search results">>,
   gapCategories   |-> GapCategories(<<"Limited factual data available">>,
                                     <<"Insufficient context provided">>,
                                     <<>>, <<"Surface-level information only">>),
   followupTopics  |-> <<>>,
   confidenceLevel |-> NoContentConfidence,
   needsMoreSearch |-> TRUE]

(***************************************************************************)
(* parseAnalysisResponse: text.kind is "json" when the reply holds a       *)
(* {...} block that JSON.parse accepts, "malformed" when it holds a block  *)
(* that JSON.parse rejects and "prose" when it holds no block; the last    *)
(* two give the fallback.                                                  *)
(***************************************************************************)
\* generatedText.match(/\{[\s\S]*\}/) finds a block
HasJsonBlock(text) == text.kind \in {"json", "malformed"}

\* JSON.parse(jsonMatch[0]) does not throw
JsonParses(text) == text.kind = "json"

parseAnalysisResponse(text) ==
  IF ~HasJsonBlock(text) \/ ~JsonParses(text) THEN FallbackAnalysis
  ELSE LET analysisData == text.payload IN
    [completeness    |-> ClampScore(analysisData.completeness),
     informationGaps |-> ToArray(analysisData.informationGaps),
     gapCategories   |-> GapCategories(ToArray(analysisData.gapCategories.factual),
                                       ToArray(analysisData.gapCategories.contextual),
                                       ToArray(analysisData.gapCategories.verification),
                                       ToArray(analysisData.gapCategories.depth)),
     followupTopics  |-> ToArray(analysisData.followupTopics),
     confidenceLevel |-> ClampScore(analysisData.confidenceLevel),
     needsMoreSearch |-> ToBoolean(analysisData.needsMoreSearch)]

RECURSIVE AllContent(_)
AllContent(searchResults) ==
  IF searchResults = <<>> THEN <<>>
  ELSE extractContentForSynthesis(Head(searchResults)) \o AllContent(Tail(searchResults))

\* changed: the generation service is called whatever the batches hold
AnalysisCallsServiceAlways(searchResults) == TRUE

\* analyzeSearchResults reaches its generateContent call
AnalysisCallsService(searchResults) ==
  searchResults # <<>> /\ AllContent(searchResults) # <<>>

\* changed: a reply that does not parse reaches the outer catch
analyzeSearchResultsParseThrows(searchResults, outcome) ==
  IF searchResults = <<>> THEN Ok(EmptyResultsAnalysis)
  ELSE IF AllContent(searchResults) = <<>> THEN Ok(NoContentAnalysis)
  ELSE IF outcome.kind = "thrown" THEN Err("ANALYSIS_ERROR", "exception")
  ELSE LET response == generateContent(outcome) IN
    IF GenerationFailed(response) THEN Err("ANALYSIS_FAILED", ErrorDetails(response))
    ELSE IF TextMissing(response) THEN Err("NO_ANALYSIS_GENERATED", "none")
    ELSE IF ~JsonParses(response.data.text) THEN Err("ANALYSIS_ERROR", "exception")
    ELSE Ok(parseAnalysisResponse(response.data.text))

analyzeSearchResults(searchResults, outcome) ==
  IF searchResults = <<>> THEN Ok(EmptyResultsAnalysis)
  ELSE IF AllContent(searchResults) = <<>> THEN Ok(NoContentAnalysis)
  ELSE IF outcome.kind = "thrown" THEN Err("ANALYSIS_ERROR", "exception")
  ELSE LET response == generateContent(outcome) IN
    IF GenerationFailed(response) THEN Err("ANALYSIS_FAILED", ErrorDetails(response))
    ELSE IF TextMissing(response) THEN Err("NO_ANALYSIS_GENERATED", "none")
    ELSE Ok(parseAnalysisResponse(response.data.text))

(***************************************************************************)
(* Replies that list queries.  A reply is its non-blank lines; a line      *)
(* either has the form "<N>. <body>" or is free text.  meaningful says     *)
(* that the line passes the length and meta-commentary filter of the       *)
(* fallback parse, padded that a blank precedes and a blank follows it.    *)
(***************************************************************************)
Line(numbered, body, meaningful) ==
  [numbered |-> numbered, body |-> body, meaningful |-> meaningful, padded |-> FALSE]

\* the same line with a blank before and after it
Indented(line) == [line EXCEPT !.padded = TRUE]

\* the line as the string split('\n') yields
LineText(line) == [body |-> line.body, prefixed |-> line.numbered, padded |-> line.padded]

\* String.prototype.trim
Trim(str) == [str EXCEPT !.padded = FALSE]

\* line.match(/^\d+\.\s*(.+)$/): the number must open the line
MatchesNumbered(line) == line.numbered /\ ~line.padded

\* changed: the numbered queries come out last first
RECURSIVE NumberedQueriesReversed(_)
NumberedQueriesReversed(lines) ==
  IF lines = <<>> THEN <<>>
  ELSE LET line == Head(lines) IN
    NumberedQueriesReversed(Tail(lines)) \o
      (IF MatchesNumbered(line) /\ QueryStr(line.body) # OriginalQuery
         THEN <<QueryStr(line.body)>> ELSE <<>>)

RECURSIVE NumberedQueries(_)
NumberedQueries(lines) ==
  IF lines = <<>> THEN <<>>
  ELSE LET line == Head(lines) IN
    (IF MatchesNumbered(line) /\ QueryStr(line.body) # OriginalQuery
       THEN <<QueryStr(line.body)>> ELSE <<>>) \o NumberedQueries(Tail(lines))

RECURSIVE MeaningfulLines(_)
MeaningfulLines(lines) ==
  IF lines = <<>> THEN <<>>
  ELSE LET line == Head(lines) IN
    (IF line.meaningful /\ LineText(line) # OriginalQuery
       THEN <<LineText(line)>> ELSE <<>>) \o MeaningfulLines(Tail(lines))

\* changed: the original query is not put in when nothing was found
parseGeneratedQueriesNoDefault(text, cfg) ==
  LET numbered == NumberedQueries(text.lines)
      queries  == IF numbered # <<>> THEN numbered
                  ELSE Slice(MeaningfulLines(text.lines), cfg.maxGeneratedQueries)
  IN Slice(queries, cfg.maxGeneratedQueries)

parseGeneratedQueries(text, cfg) ==
  LET numbered == NumberedQueries(text.lines)
      queries  == IF numbered # <<>> THEN numbered
                  ELSE Slice(MeaningfulLines(text.lines), cfg.maxGeneratedQueries)
      nonEmpty == IF queries = <<>> THEN <<OriginalQuery>> ELSE queries
  IN Slice(nonEmpty, cfg.maxGeneratedQueries)

generateSearchQueries(outcome, cfg) ==
  IF outcome.kind = "thrown" THEN Err("QUERY_GENERATION_ERROR", "exception") ELSE
  LET response == generateContent(outcome) IN
    IF GenerationFailed(response)
      THEN Err("QUERY_GENERATION_FAILED", ErrorDetails(response))
    ELSE IF TextMissing(response) THEN Err("NO_QUERIES_GENERATED", "none")
    ELSE Ok(parseGeneratedQueries(response.data.text, cfg))

(***************************************************************************)
(* calculateQueryPriority over the vocabulary of the model: what each      *)
(* query body contains.                                                    *)
(***************************************************************************)
BodyKeywords(body) ==
  CASE body = "q2" -> {"factual"}
    [] body = "q3" -> {"factual", "verification"}
    [] body = "q4" -> {"verification", "depth"}
    [] body = "q5" -> {"contextual"}
    [] body = "q6" -> {"factual", "verification", "depth", "contextual"}
    [] OTHER       -> {}

\* q5 and q6 sit at the edges of the length and word-count bonuses
BodyLength(body) ==
  CASE body = "q3" -> 90
    [] body = "q5" -> 17
    [] body = "q6" -> 78
    [] OTHER       -> 30

BodyWords(body) ==
  CASE body = "q3" -> 9
    [] body = "q5" -> 2
    [] body = "q6" -> 8
    [] OTHER       -> 5

QueryLength(query) ==
  BodyLength(query.body) + (IF query.prefixed THEN 3 ELSE 0)
                         + (IF query.padded THEN 2 ELSE 0)
\* queryLower.split(' ').length: the blank before and the blank after a
\* padded string each cut off an empty piece
QueryWords(query) ==
  BodyWords(query.body) + (IF query.prefixed THEN 1 ELSE 0)
                        + (IF query.padded THEN 2 ELSE 0)

\* the bodies whose text occurs in a topic or gap text
PhraseBodies(phrase) ==
  IF phrase = "orig additional information" THEN {"orig"} ELSE {phrase}

\* queryLower.includes(text) || text.includes(queryLower) between a query
\* and a topic or gap text: the text is the body of the query, or the whole
\* query string, number and blanks included, occurs in the text
Overlaps(query, phrase) ==
  \/ query.body = phrase
  \/ ~query.prefixed /\ ~query.padded /\ query.body \in PhraseBodies(phrase)

Count(seq, P(_)) == Cardinality({i \in 1..Len(seq) : P(seq[i])})

\* changed: addressing several gap types earns no bonus
calculateQueryPriorityNoBonus(query, analysis) ==
  LET addressed == {cat \in BodyKeywords(query.body) : analysis.gapCategories[cat] # <<>>}
      keywordScore ==
          (IF "factual" \in addressed THEN 40 ELSE 0)
        + (IF "verification" \in addressed THEN 35 ELSE 0)
        + (IF "depth" \in addressed THEN 30 ELSE 0)
        + (IF "contextual" \in addressed THEN 25 ELSE 0)
      topicMatches == Count(analysis.followupTopics, LAMBDA topic : Overlaps(query, topic))
      gapMatches == Count(analysis.informationGaps, LAMBDA gap : Overlaps(query, gap))
  IN Max(0, keywordScore + topicMatches * 15 + gapMatches * 10
            + (IF QueryLength(query) >= 20 /\ QueryLength(query) <= 80 THEN 5 ELSE 0)
            + (IF QueryWords(query) >= 3 /\ QueryWords(query) <= 8 THEN 5 ELSE 0))

\* changed: a factual keyword earns nothing
calculateQueryPriorityNoFactual(query, analysis) ==
  LET addressed == {cat \in BodyKeywords(query.body) : analysis.gapCategories[cat] # <<>>}
      keywordScore ==
          (IF "verification" \in addressed THEN 35 ELSE 0)
        + (IF "depth" \in addressed THEN 30 ELSE 0)
        + (IF "contextual" \in addressed THEN 25 ELSE 0)
      topicMatches == Count(analysis.followupTopics, LAMBDA topic : Overlaps(query, topic))
      gapMatches == Count(analysis.informationGaps, LAMBDA gap : Overlaps(query, gap))
  IN Max(0, keywordScore + topicMatches * 15 + gapMatches * 10
            + (IF Cardinality(addressed) > 1 THEN 20 ELSE 0)
            + (IF QueryLength(query) >= 20 /\ QueryLength(query) <= 80 THEN 5 ELSE 0)
            + (IF QueryWords(query) >= 3 /\ QueryWords(query) <= 8 THEN 5 ELSE 0))

calculateQueryPriority(query, analysis) ==
  LET addressed == {cat \in BodyKeywords(query.body) : analysis.gapCategories[cat] # <<>>}
      keywordScore ==
          (IF "factual" \in addressed THEN 40 ELSE 0)
        + (IF "verification" \in addressed THEN 35 ELSE 0)
        + (IF "depth" \in addressed THEN 30 ELSE 0)
        + (IF "contextual" \in addressed THEN 25 ELSE 0)
      topicMatches == Count(analysis.followupTopics, LAMBDA topic : Overlaps(query, topic))
      gapMatches == Count(analysis.informationGaps, LAMBDA gap : Overlaps(query, gap))
  IN Max(0, keywordScore + topicMatches * 15 + gapMatches * 10
            + (IF Cardinality(addressed) > 1 THEN 20 ELSE 0)
            + (IF QueryLength(query) >= 20 /\ QueryLength(query) <= 80 THEN 5 ELSE 0)
            + (IF QueryWords(query) >= 3 /\ QueryWords(query) <= 8 THEN 5 ELSE 0))

\* Array.prototype.sort((a, b) => b.priority - a.priority): stable, descending
RECURSIVE InsertByPriority(_, _)
InsertByPriority(entry, sorted) ==
  IF sorted = <<>> THEN <<entry>>
  ELSE IF Head(sorted).priority >= entry.priority
    THEN <<Head(sorted)>> \o InsertByPriority(entry, Tail(sorted))
    ELSE <<entry>> \o sorted

RECURSIVE SortByPriority(_)
SortByPriority(entries) ==
  IF entries = <<>> THEN <<>>
  ELSE InsertByPriority(entries[Len(entries)],
                        SortByPriority(SubSeq(entries, 1, Len(entries) - 1)))

\* the candidates of the numbered lines of a reply, each with its score
ScoredNumbered(lines, analysis) ==
  LET numbered == NumberedQueries(lines)
  IN [i \in 1..Len(numbered) |->
        [query |-> numbered[i],
         priority |-> calculateQueryPriority(numbered[i], analysis)]]

\* the candidates of the free-line fallback: the first maxFollowupQueries
\* meaningful lines, scored as they stand and pushed trimmed
ScoredMeaningful(lines, analysis, cfg) ==
  LET meaningfulLines == Slice(MeaningfulLines(lines), cfg.maxFollowupQueries)
  IN [i \in 1..Len(meaningfulLines) |->
        [query |-> Trim(meaningfulLines[i]),
         priority |-> calculateQueryPriority(meaningfulLines[i], analysis)]]

parseAndPrioritizeFollowupQueries(text, analysis, cfg) ==
  LET numbered == ScoredNumbered(text.lines, analysis)
      queries  == IF numbered # <<>> THEN numbered
                  ELSE ScoredMeaningful(text.lines, analysis, cfg)
      sorted   == Slice(SortByPriority(queries), cfg.maxFollowupQueries)
  IN [i \in 1..Len(sorted) |-> sorted[i].query]

\* changed: the information gaps are not looked at
FollowupCallsServiceNeedsOnly(analysis) == analysis.needsMoreSearch

\* generateFollowupQueries reaches its generateContent call
FollowupCallsService(analysis) ==
  analysis.needsMoreSearch /\ analysis.informationGaps # <<>>

generateFollowupQueries(analysis, outcome, cfg) ==
  IF ~analysis.needsMoreSearch \/ analysis.informationGaps = <<>> THEN Ok(<<>>)
  ELSE IF outcome.kind = "thrown" THEN Err("FOLLOWUP_GENERATION_ERROR", "exception")
  ELSE LET response == generateContent(outcome) IN
    IF GenerationFailed(response)
      THEN Err("FOLLOWUP_GENERATION_FAILED", ErrorDetails(response))
    ELSE IF TextMissing(response) THEN Err("NO_FOLLOWUP_QUERIES_GENERATED", "none")
    ELSE Ok(parseAndPrioritizeFollowupQueries(response.data.text, analysis, cfg))

(***************************************************************************)
(* Replies of the generation service used by the runs of the model.        *)
(***************************************************************************)
TextOutcome(text) == [kind |-> "ok", text |-> text]

QueryListTexts ==
  { [kind |-> "lines", lines |-> ls] : ls \in
      { <<Line(TRUE, "q1", TRUE)>>,
        [i \in 1..(MaxQueries + 1) |-> Line(TRUE, <<"q3", "q2", "q1", "q1", "q1">>[i], TRUE)],
        <<Line(FALSE, "q1", FALSE)>> } }

QueryListOutcomes ==
  HttpFailures \cup {TextOutcome(NoText)} \cup {TextOutcome(t) : t \in QueryListTexts}

\* the generation call may also throw into generateSearchQueries
QueryGenOutcomes == QueryListOutcomes \cup { [kind |-> "thrown"] }

AnalysisPayloads ==
  [ completeness    : {Num(FallbackCompleteness), Num(DefaultCompletenessThreshold)},
    informationGaps : {Arr(<<>>), Arr(<<"gap">>)},
    gapCategories   : {GapCategories(Arr(<<"fact">>), Missing, Missing, Missing)},
    followupTopics  : {Arr(<<>>)},
    confidenceLevel : {Num(70)},
    needsMoreSearch : {Bool(TRUE), Bool(FALSE)} ]

AnalysisOutcomes ==
  HttpFailures \cup {TextOutcome(NoText), TextOutcome([kind |-> "prose"]),
                     [kind |-> "thrown"]}
    \cup {TextOutcome([kind |-> "json", payload |-> p]) : p \in AnalysisPayloads}

\* the reply slot of a step that does not reach the generation service
NoCall == [kind |-> "not_called"]

(***************************************************************************)
(* searchMultipleQueries: Promise.allSettled over one search per query.    *)
(* pending[i] is the state of the promise of query i.                      *)
(***************************************************************************)
Pending == [kind |-> "pending"]

IssueSearches(queries) == [i \in 1..Len(queries) |-> Pending]

\* changed: the join resolves as soon as one promise has settled
FirstSettled == \E i \in 1..Len(pending) : pending[i] # Pending

\* await Promise.allSettled(searchPromises)
AllSettled == \A i \in 1..Len(pending) : pending[i] # Pending

\* results.map(...): a fulfilled promise gives its value, a rejected one an
\* INDIVIDUAL_SEARCH_FAILED error, at the position of its query
SettledResponse(outcome) ==
  IF outcome.kind \in {"ok", "http_error", "network_error"} THEN search(outcome)
  ELSE Err("INDIVIDUAL_SEARCH_FAILED", "reason")

\* changed: the outcomes are returned in reverse order
searchMultipleQueriesReversed(settled) ==
  [i \in 1..Len(settled) |-> SettledResponse(settled[Len(settled) + 1 - i])]

searchMultipleQueries(settled) ==
  [i \in 1..Len(settled) |-> SettledResponse(settled[i])]

\* responses.filter(r => r.success && r.data).map(r => r.data!)
RECURSIVE SuccessfulData(_)
SuccessfulData(responses) ==
  IF responses = <<>> THEN <<>>
  ELSE (IF Head(responses).success THEN <<Head(responses).data>> ELSE <<>>)
         \o SuccessfulData(Tail(responses))

(***************************************************************************)
(* The decisions of search().                                              *)
(***************************************************************************)
\* changed: a failed query generation leaves no query to search
QueriesToSearchNoFallback(response) ==
  IF ~response.success THEN <<>> ELSE response.data

\* searchQueries: the generated queries, or the original query alone when
\* the generation failed
QueriesToSearch(response) ==
  IF ~response.success THEN <<OriginalQuery>> ELSE response.data

\* changed: the enable flag is not consulted
IterativeIgnoresFlag(cfg) == cfg.maxSearchIterations > 1

IterativeEnabled(cfg) == cfg.enableIterativeSearch /\ cfg.maxSearchIterations > 1

\* changed: <= in place of <
LoopContinuesInclusive(iteration, cfg) == iteration <= cfg.maxSearchIterations

LoopContinues(iteration, cfg) == iteration < cfg.maxSearchIterations

\* changed: the empty result list is not detected
InitialSearchNeverFailed(iterationResults) == Len(iterationResults) < 0

InitialSearchAllFailed(iterationResults) == Len(iterationResults) = 0

AnalysisUnusable(response) == ~response.success

\* changed: the completeness threshold is not consulted
StoppingCriteriaNeedsOnly(analysis, cfg) == ~analysis.needsMoreSearch

StoppingCriteriaMet(analysis, cfg) ==
  ~analysis.needsMoreSearch \/ Geq(analysis.completeness, cfg.completenessThreshold)

NoInformationGaps(analysis) == Len(analysis.informationGaps) = 0

\* changed: an empty query list is not detected
FollowupFailedOnly(response) == ~response.success

FollowupUnusable(response) == ~response.success \/ Len(response.data) = 0

\* changed: the new batches are put in front of the accumulated ones
MergeNewFirst(accumulated, newResults) == newResults \o accumulated

\* allSearchResults = [...allSearchResults, ...newResults]
MergeResults(accumulated, newResults) == accumulated \o newResults

NoNewResults(newResults) == Len(newResults) = 0

\* changed: only a round without items stops the loop
DiminishingReturnsEmptyOnly(newResultsCount, uniqueResultsAfter, previousResultsCount) ==
  newResultsCount = 0

\* newResultsCount === 0 || uniqueResultsAfter <= previousResultsCount
DiminishingReturns(newResultsCount, uniqueResultsAfter, previousResultsCount) ==
  newResultsCount = 0 \/ uniqueResultsAfter <= previousResultsCount

\* changed: the iteration index is not advanced
SameIteration(iteration) == iteration

\* currentIteration++
NextIteration(iteration) == iteration + 1

AnswerUnusable(response) == ~response.success \/ response.data.kind = "empty"

\* answerResponse.error, as carried in the details of the returned error
ErrorOf(response) == IF response.success THEN "undefined" ELSE response.error.code

NoCalls == [queryGen |-> 0, search |-> 0, analysis |-> 0, followup |-> 0, answer |-> 0]

Called(what) == [calls EXCEPT ![what] = @ + 1]

(***************************************************************************)
(* search(): state on entry.                                               *)
(***************************************************************************)
Init ==
  /\ config \in Configs
  /\ pc = "Initializing"
  /\ queryGenResponse = Unset
  /\ searchQueries = <<>>
  /\ pending = <<>>
  /\ allSearchResults = <<>>
  /\ currentIteration = 1
  /\ analysisResponse = Unset
  /\ followupResponse = Unset
  /\ aggregatedResults = SearchResponse(<<>>)
  /\ answerOutcome = NoCall
  /\ answerResponse = Unset
  /\ result = Unset
  /\ stopReason = "none"
  /\ calls = NoCalls
  /\ args = [reconfigured |-> FALSE]
  /\ returned = <<>>

\* leave the loop (break, or the while condition is false) for Step 3
LeaveLoop(reason) ==
  /\ pc' = "Synthesizing"
  /\ stopReason' = reason

\* evaluate the while condition with the given iteration index
LoopHead(iteration) ==
  IF LoopContinues(iteration, config)
    THEN /\ pc' = "Analyzing"
         /\ calls' = Called("analysis")
         /\ stopReason' = stopReason
    ELSE /\ LeaveLoop("max_iterations")
         /\ calls' = calls

\* Step 1, first await: query generation, or the single focused search
Start ==
  /\ pc = "Initializing"
  /\ IF config.enableQueryGeneration
       THEN /\ pc' = "GeneratingQueries"
            /\ calls' = Called("queryGen")
            /\ pending' = pending
       ELSE /\ pc' = "SingleSearch"
            /\ calls' = Called("search")
            /\ pending' = <<Pending>>
  /\ UNCHANGED <<args, returned, config, queryGenResponse, searchQueries, allSearchResults, currentIteration,
                 analysisResponse, followupResponse, aggregatedResults,
                 answerOutcome, answerResponse, result, stopReason>>

\* generateSearchQueries returned: fall back to the original query on
\* failure, then issue the initial searches
QueriesGenerated(outcome) ==
  /\ pc = "GeneratingQueries"
  /\ LET response == generateSearchQueries(outcome, config)
         queries == QueriesToSearch(response)
     IN /\ queryGenResponse' = response
        /\ searchQueries' = queries
        /\ pending' = IssueSearches(queries)
  /\ pc' = "Searching"
  /\ calls' = Called("search")
  /\ UNCHANGED <<args, returned, config, allSearchResults, currentIteration, analysisResponse,
                 followupResponse, aggregatedResults, answerOutcome,
                 answerResponse, result, stopReason>>

\* the links the run has seen so far, in merged batches or settled promises
KnownLinks ==
  { FlatItems(allSearchResults)[k].link : k \in 1..Len(FlatItems(allSearchResults)) }
    \cup UNION { { pending[j].data.items[k].link : k \in 1..Len(pending[j].data.items) } :
                  j \in { n \in 1..Len(pending) : pending[n].kind = "ok" } }

\* The program only compares links for equality, so the runs number the
\* links in the order in which the search service first returns them.
InOrderOfAppearance(outcome) ==
  outcome.kind = "ok" =>
    \A k \in 1..Len(outcome.data.items) :
      outcome.data.items[k].link <= Cardinality(KnownLinks) + 1

\* one search promise in flight settles: fulfilled with the result of the
\* client, or rejected
SettleSearch(i, outcome) ==
  /\ pc \in {"Searching", "FollowupSearching", "SingleSearch"}
  /\ i \in 1..Len(pending)
  /\ pending[i] = Pending
  /\ InOrderOfAppearance(outcome)
  /\ pending' = [pending EXCEPT ![i] = outcome]
  /\ UNCHANGED <<args, returned, config, pc, queryGenResponse, searchQueries, allSearchResults, currentIteration,
                 analysisResponse, followupResponse, aggregatedResults,
                 answerOutcome, answerResponse, result, stopReason, calls>>

\* allSearchResults = [...iterationResults], then Step 2 or Step 3
AfterInitialSearch(iterationResults) ==
  /\ allSearchResults' = iterationResults
  /\ IF IterativeEnabled(config)
       THEN LoopHead(currentIteration)
       ELSE LeaveLoop("not_iterative") /\ calls' = calls
  /\ result' = result

\* return { error: { code: 'INITIAL_SEARCH_FAILED' } }
InitialSearchFailed(details) ==
  /\ pc' = "Failed"
  /\ result' = Err("INITIAL_SEARCH_FAILED", details)
  /\ UNCHANGED <<allSearchResults, stopReason, calls>>

\* every initial search has settled
InitialSearchJoined ==
  /\ pc = "Searching"
  /\ AllSettled
  /\ LET iterationResults == SuccessfulData(searchMultipleQueries(pending))
     IN IF InitialSearchAllFailed(iterationResults)
          THEN InitialSearchFailed("undefined")
          ELSE AfterInitialSearch(iterationResults)
  /\ pending' = <<>>
  /\ UNCHANGED <<args, returned, config, queryGenResponse, searchQueries, currentIteration, analysisResponse,
                 followupResponse, aggregatedResults, answerOutcome,
                 answerResponse>>

\* changed: an exception leaves search() to its caller
CaughtEscapes ==
  /\ pc' = "Thrown"
  /\ result' = result

\* the catch of search(): the exception becomes the error of the run
Caught ==
  /\ pc' = "Failed"
  /\ result' = Err("ORCHESTRATION_ERROR", "exception")

\* searchWithFocus settled (query generation disabled); its rejection is
\* thrown by the await into the catch of search()
SingleSearchReturned ==
  /\ pc = "SingleSearch"
  /\ AllSettled
  /\ IF pending[1].kind = "rejected"
       THEN /\ Caught
            /\ UNCHANGED <<allSearchResults, calls, stopReason>>
       ELSE LET searchResponse == SettledResponse(pending[1])
            IN IF ~searchResponse.success
                 THEN InitialSearchFailed(searchResponse.error.code)
                 ELSE AfterInitialSearch(<<searchResponse.data>>)
  /\ pending' = <<>>
  /\ UNCHANGED <<args, returned, config, queryGenResponse, searchQueries, currentIteration, analysisResponse,
                 followupResponse, aggregatedResults, answerOutcome,
                 answerResponse>>

\* changed: a failed analysis is returned as the error of the run
OnAnalysisFailureAborts ==
  /\ pc' = "Failed"
  /\ result' = Err("ANALYSIS_FAILED", "undefined")
  /\ UNCHANGED <<calls, stopReason>>

\* the analysis failed: break
OnAnalysisFailure ==
  /\ LeaveLoop("analysis_failed")
  /\ UNCHANGED <<calls, result>>

\* analyzeSearchResults returned: stop, or ask for follow-up queries
AnalysisReturned(outcome) ==
  /\ pc = "Analyzing"
  /\ outcome.kind = "not_called" <=> ~AnalysisCallsService(allSearchResults)
  /\ LET response == analyzeSearchResults(allSearchResults, outcome)
     IN /\ analysisResponse' = response
        /\ IF AnalysisUnusable(response)
             THEN OnAnalysisFailure
           ELSE IF StoppingCriteriaMet(response.data, config)
             THEN LeaveLoop("criteria_met") /\ UNCHANGED <<calls, result>>
           ELSE IF NoInformationGaps(response.data)
             THEN LeaveLoop("no_gaps") /\ UNCHANGED <<calls, result>>
           ELSE /\ pc' = "GeneratingFollowups"
                /\ calls' = Called("followup")
                /\ UNCHANGED <<stopReason, result>>
  /\ UNCHANGED <<args, returned, config, queryGenResponse, searchQueries, pending, allSearchResults, currentIteration,
                 followupResponse, aggregatedResults, answerOutcome,
                 answerResponse>>

\* no follow-up query to search for: break
OnNoFollowups ==
  /\ LeaveLoop("no_followups")
  /\ UNCHANGED <<pending, calls, result>>

\* generateFollowupQueries returned: stop, or issue the follow-up searches
FollowupsReturned(outcome) ==
  /\ pc = "GeneratingFollowups"
  /\ outcome.kind = "not_called" <=> ~FollowupCallsService(analysisResponse.data)
  /\ LET response == generateFollowupQueries(analysisResponse.data, outcome, config)
     IN /\ followupResponse' = response
        /\ IF FollowupUnusable(response)
             THEN OnNoFollowups
             ELSE /\ pending' = IssueSearches(response.data)
                  /\ pc' = "FollowupSearching"
                  /\ calls' = Called("search")
                  /\ UNCHANGED <<stopReason, result>>
  /\ UNCHANGED <<args, returned, config, queryGenResponse, searchQueries, allSearchResults, currentIteration,
                 analysisResponse, aggregatedResults, answerOutcome,
                 answerResponse>>

\* changed: a follow-up round without results is returned as an error
OnNoNewResultsAborts ==
  /\ pc' = "Failed"
  /\ result' = Err("FOLLOWUP_SEARCH_FAILED", "undefined")
  /\ UNCHANGED <<allSearchResults, currentIteration, calls, stopReason>>

\* every follow-up search failed: break before the merge
OnNoNewResults ==
  /\ LeaveLoop("no_new_results")
  /\ UNCHANGED <<allSearchResults, currentIteration, calls, result>>

\* every follow-up search has settled: merge, detect diminishing returns,
\* advance the iteration index
FollowupSearchJoined ==
  /\ pc = "FollowupSearching"
  /\ AllSettled
  /\ LET newResults == SuccessfulData(searchMultipleQueries(pending))
         newResultsCount == TotalItems(newResults)
         previousResultsCount == TotalItems(allSearchResults)
         merged == MergeResults(allSearchResults, newResults)
         uniqueResultsAfter == Len(aggregateResults(merged, config).items)
     IN IF NoNewResults(newResults)
          THEN OnNoNewResults
          ELSE /\ allSearchResults' = merged
               /\ result' = result
               /\ IF DiminishingReturns(newResultsCount, uniqueResultsAfter,
                                        previousResultsCount)
                    THEN /\ LeaveLoop("diminishing_returns")
                         /\ UNCHANGED <<currentIteration, calls>>
                    ELSE /\ currentIteration' = NextIteration(currentIteration)
                         /\ LoopHead(NextIteration(currentIteration))
  /\ pending' = <<>>
  /\ UNCHANGED <<args, returned, config, queryGenResponse, searchQueries, analysisResponse, followupResponse,
                 aggregatedResults, answerOutcome, answerResponse>>

\* changed: the answer is requested before the aggregated set is tested
SynthesizeAnswersFirst ==
  /\ pc = "Synthesizing"
  /\ aggregatedResults' = aggregateResults(allSearchResults, config)
  /\ calls' = Called("answer")
  /\ IF Len(aggregatedResults'.items) = 0
       THEN /\ pc' = "Failed"
            /\ result' = Err("NO_FINAL_RESULTS", "undefined")
       ELSE /\ pc' = "Answering"
            /\ result' = result
  /\ UNCHANGED <<args, returned, config, queryGenResponse, searchQueries, pending, allSearchResults, currentIteration,
                 analysisResponse, followupResponse, answerOutcome, answerResponse,
                 stopReason>>

\* Steps 3 to 5: aggregate everything gathered and ask for the answer
Synthesize ==
  /\ pc = "Synthesizing"
  /\ aggregatedResults' = aggregateResults(allSearchResults, config)
  /\ IF Len(aggregatedResults'.items) = 0
       THEN /\ pc' = "Failed"
            /\ result' = Err("NO_FINAL_RESULTS", "undefined")
            /\ calls' = calls
       ELSE /\ pc' = "Answering"
            /\ result' = result
            /\ calls' = Called("answer")
  /\ UNCHANGED <<args, returned, config, queryGenResponse, searchQueries, pending, allSearchResults, currentIteration,
                 analysisResponse, followupResponse, answerOutcome, answerResponse,
                 stopReason>>

\* changed: the answer generation is awaited again after a failure
FinalGenerationRetried(response) ==
  /\ pc' = "Answering"
  /\ result' = result

\* return { error: { code: 'FINAL_GENERATION_FAILED', details } }
FinalGenerationFailed(response) ==
  /\ pc' = "Failed"
  /\ result' = Err("FINAL_GENERATION_FAILED", ErrorOf(response))

\* generateSearchAnswer returned: Step 6 or FINAL_GENERATION_FAILED
AnswerReturned(outcome) ==
  /\ pc = "Answering"
  /\ answerOutcome' = outcome
  /\ IF outcome.kind = "thrown"
       THEN /\ Caught
            /\ UNCHANGED answerResponse
       ELSE LET response == generateSearchAnswer(outcome)
            IN /\ answerResponse' = response
               /\ IF AnswerUnusable(response)
                    THEN FinalGenerationFailed(response)
                    ELSE /\ pc' = "Done"
                         /\ result' = Ok([answer |-> response.data,
                                          sources |-> extractSources(aggregatedResults)])
  /\ UNCHANGED <<args, returned, config, queryGenResponse, searchQueries, pending, allSearchResults, currentIteration,
                 analysisResponse, followupResponse, aggregatedResults, stopReason,
                 calls>>

(***************************************************************************)
(* updateConfiguration: public, and the methods read this.config again     *)
(* after every await, so a call made while a run is suspended changes what *)
(* the rest of the run does.  args records which runs had started when the *)
(* configuration was changed.                                              *)
(***************************************************************************)
\* the partial configurations passed in: iterative search is switched on,
\* the iteration ceiling is lowered to 1 or raised to the largest value
ConfigPatches ==
  { [enableIterativeSearch |-> TRUE],
    [maxSearchIterations |-> 1],
    [maxSearchIterations |-> MaxIterations] }

\* { ...this.config, ...config }
MergeConfig(current, patch) ==
  [field \in DOMAIN current |->
     IF field \in DOMAIN patch THEN patch[field] ELSE current[field]]

\* what args records of a call: in a run of search(), that the
\* configuration changed after the run had started; with two runs, the runs
\* that had started when it changed
ConfigHistory(changed) ==
  CASE "reconfigured" \in DOMAIN args ->
         [args EXCEPT !.reconfigured = @ \/ (changed /\ pc # "Initializing")]
    [] "touched" \in DOMAIN args ->
         [args EXCEPT !.touched =
            IF ~changed THEN @
            ELSE @ \cup (IF pc # "Initializing" THEN {args.active} ELSE {})
                   \cup (IF args.parked.pc # "Initializing"
                           THEN {3 - args.active} ELSE {})]
    [] OTHER -> args

\* a caller can call it whenever no method of the orchestrator is executing:
\* before a run, while a run is suspended at an await or a yield, after it.
\* From the join of the searches to the answer call search() executes
\* without an await
updateConfiguration(patch) ==
  /\ pc # "Synthesizing"
  /\ config' = MergeConfig(config, patch)
  /\ args' = ConfigHistory(config' # config)
  /\ UNCHANGED <<pc, queryGenResponse, searchQueries, pending, allSearchResults,
                 currentIteration, analysisResponse, followupResponse,
                 aggregatedResults, answerOutcome, answerResponse, result,
                 stopReason, calls, returned>>

\* the configuration is the one the run started with
ConfigKept == ~args.reconfigured

Next ==
  \/ Start
  \/ \E outcome \in QueryGenOutcomes : QueriesGenerated(outcome)
  \/ \E i \in 1..MaxQueries : \E outcome \in PromiseOutcomes : SettleSearch(i, outcome)
  \/ InitialSearchJoined
  \/ SingleSearchReturned
  \/ \E outcome \in AnalysisOutcomes \cup {NoCall} : AnalysisReturned(outcome)
  \/ \E outcome \in QueryGenOutcomes \cup {NoCall} : FollowupsReturned(outcome)
  \/ FollowupSearchJoined
  \/ Synthesize
  \/ \E outcome \in AnswerOutcomes \cup { [kind |-> "thrown"] } : AnswerReturned(outcome)
  \/ \E patch \in ConfigPatches : updateConfiguration(patch)

Spec == Init /\ [][Next]_vars

(***************************************************************************)
(* Properties of search().                                                 *)
(***************************************************************************)
SynthStates == {"Synthesizing", "Answering", "Done", "Failed"}
AfterAggregation == {"Answering", "Done", "Failed"}
InitialSearchPcs == {"Searching", "SingleSearch"}

\* follow-up search rounds executed so far: every search call but the first
FollowupRounds == IF calls.search = 0 THEN 0 ELSE calls.search - 1

AllPendingFailed == \A i \in 1..Len(pending) : pending[i].kind # "ok"

\* Step 3 has aggregated everything accumulated
SynthesisOverAll ==
  pc \in AfterAggregation => aggregatedResults = aggregateResults(allSearchResults, config)

\* C1 as stated: with iterative search enabled the iteration index never
\* exceeds maxSearchIterations and at most maxSearchIterations - 1 follow-up
\* rounds are executed.
C1_IndexNeverExceedsMax ==
  config.enableIterativeSearch =>
    /\ currentIteration <= config.maxSearchIterations
    /\ FollowupRounds <= config.maxSearchIterations - 1

\* C1 amended: in a run whose configuration is not replaced while it is
\* suspended, with iterative search enabled the iteration index never
\* exceeds max(1, maxSearchIterations), and at most
\* max(0, maxSearchIterations - 1) follow-up rounds are executed.
C1_IterationCeiling ==
  (ConfigKept /\ config.enableIterativeSearch) =>
    /\ currentIteration <= Max(1, config.maxSearchIterations)
    /\ FollowupRounds <= Max(0, config.maxSearchIterations - 1)

C1_Witness ==
  /\ pc = "Done"
  /\ ConfigKept
  /\ config.enableIterativeSearch
  /\ config.maxSearchIterations = MaxIterations
  /\ currentIteration = config.maxSearchIterations
  /\ FollowupRounds = config.maxSearchIterations - 1

FirstAnalysisHalfComplete ==
  /\ analysisResponse.success
  /\ analysisResponse.data.completeness = FallbackCompleteness
  /\ analysisResponse.data.needsMoreSearch
  /\ analysisResponse.data.informationGaps # <<>>

FollowupsFound ==
  /\ followupResponse.success
  /\ followupResponse.data # <<>>
  /\ pc # "FollowupSearching"
  /\ stopReason # "no_new_results"

\* C2: with maxSearchIterations = 2, once the first analysis reported
\* completeness 50 with gaps, follow-up queries were generated and their
\* searches found results, the run has made exactly one follow-up round
\* and one analysis, and is synthesizing: no second analysis is requested.
\* The configuration is the one the run started with.
C2_ExactlyOneFollowupRound ==
  (/\ ConfigKept
   /\ config.enableIterativeSearch
   /\ config.maxSearchIterations = 2
   /\ FirstAnalysisHalfComplete
   /\ FollowupsFound)
  => /\ pc \in SynthStates
     /\ stopReason \in {"max_iterations", "diminishing_returns"}
     /\ calls.analysis = 1
     /\ calls.followup = 1
     /\ calls.search = 2

C2_Witness ==
  /\ pc = "Done"
  /\ ConfigKept
  /\ config.maxSearchIterations = 2
  /\ FirstAnalysisHalfComplete
  /\ FollowupsFound
  /\ stopReason = "max_iterations"
  /\ currentIteration = 2

StopSignal ==
  /\ analysisResponse.success
  /\ \/ ~analysisResponse.data.needsMoreSearch
     \/ Geq(analysisResponse.data.completeness, config.completenessThreshold)
     \/ analysisResponse.data.informationGaps = <<>>

\* C3: once an analysis returned needsMoreSearch=false, or completeness at
\* or above the threshold, or no information gaps, the loop is over: the
\* run is in synthesis, and no follow-up generation and no search was
\* requested beyond those of the completed iterations.
C3_StopSignalEndsLoop ==
  StopSignal =>
    /\ pc \in SynthStates
    /\ stopReason \in {"criteria_met", "no_gaps"}
    /\ calls.analysis = currentIteration
    /\ calls.followup = currentIteration - 1
    /\ calls.search = currentIteration
    /\ pc = "Failed" => result.error.code \in {"FINAL_GENERATION_FAILED", "ORCHESTRATION_ERROR"}

C3_Witness ==
  /\ pc = "Done"
  /\ currentIteration = 2
  /\ analysisResponse.success
  /\ analysisResponse.data.needsMoreSearch
  /\ analysisResponse.data.informationGaps # <<>>
  /\ Geq(analysisResponse.data.completeness, config.completenessThreshold)

\* the deduplicated item count of a list of batches
UniqueCount(searchResponses) == Len(aggregateResults(searchResponses, config).items)

\* C4 as stated: when the batches of a follow-up round are merged, the run
\* stops for diminishing returns exactly when the deduplicated item count
\* after the merge does not exceed the deduplicated count before it.
C4_DiminishingIffNoGrowth ==
  [][(pc = "FollowupSearching" /\ allSearchResults' # allSearchResults)
       => ((stopReason' = "diminishing_returns")
             <=> UniqueCount(allSearchResults') <= UniqueCount(allSearchResults))]_vars

\* the run has made no analysis, no follow-up generation and no follow-up
\* search
NoIterationWork ==
  /\ pc \notin {"Analyzing", "GeneratingFollowups", "FollowupSearching"}
  /\ calls.analysis = 0
  /\ calls.followup = 0
  /\ calls.search <= 1
  /\ currentIteration = 1

\* C5: with iterative search disabled, or maxSearchIterations <= 1, no
\* analysis, no follow-up generation and no follow-up search ever happens:
\* the initial search is followed by synthesis.  The configuration is read
\* when the initial search has returned: a run that finds iterative search
\* disabled or the ceiling at 1 or below there goes to synthesis, and has
\* done no iteration work at any later point, whatever the configuration
\* is replaced with afterwards; a run whose configuration is never replaced
\* does no iteration work in any state.
C5_NoIterationWhenDisabled ==
  /\ [][(/\ pc \in InitialSearchPcs /\ pc' \notin InitialSearchPcs
          /\ (~config.enableIterativeSearch \/ config.maxSearchIterations <= 1))
           => /\ pc' \in {"Synthesizing", "Failed"}
              /\ pc' = "Synthesizing" => stopReason' = "not_iterative"]_vars
  /\ [](stopReason = "not_iterative" => pc \in SynthStates /\ NoIterationWork)
  /\ []((/\ ConfigKept
          /\ (~config.enableIterativeSearch \/ config.maxSearchIterations <= 1))
           => NoIterationWork)

C5_Witness ==
  /\ pc = "Done"
  /\ stopReason = "not_iterative"
  /\ config.enableIterativeSearch
  /\ config.maxSearchIterations <= 1
  /\ config.enableQueryGeneration

\* C6 as stated: when the initial searches have settled, the run fails
\* with INITIAL_SEARCH_FAILED exactly when every one of them failed, and a
\* run that failed so has made no analysis, follow-up or answer call.
C6_EveryFailureIsInitialSearchFailed ==
  /\ [][(pc \in InitialSearchPcs /\ pc' \notin InitialSearchPcs) =>
          IF AllPendingFailed
            THEN pc' = "Failed" /\ result'.error.code = "INITIAL_SEARCH_FAILED"
            ELSE pc' \in {"Analyzing", "Synthesizing"} /\ result' = Unset]_vars
  /\ []((~result.success /\ result.error.code = "INITIAL_SEARCH_FAILED") =>
          /\ pc = "Failed"
          /\ allSearchResults = <<>>
          /\ calls.analysis = 0 /\ calls.followup = 0 /\ calls.answer = 0)

\* the one focused search of a run without query generation was rejected
SingleSearchRejected ==
  pc = "SingleSearch" /\ pending # <<>> /\ pending[1].kind = "rejected"

\* C6 amended: when the initial searches have settled and every one of them
\* failed, the run ends in Failed without an analysis, follow-up or answer
\* call: with ORCHESTRATION_ERROR when the one focused search of a run
\* without query generation was rejected, with INITIAL_SEARCH_FAILED in
\* every other case.  When one of them succeeded the run goes on, and no
\* run that ended with INITIAL_SEARCH_FAILED has gathered a result.
C6_InitialSearchFailure ==
  /\ [][(pc \in InitialSearchPcs /\ pc' \notin InitialSearchPcs) =>
          IF AllPendingFailed
            THEN /\ pc' = "Failed"
                 /\ result'.error.code =
                      IF SingleSearchRejected THEN "ORCHESTRATION_ERROR"
                                              ELSE "INITIAL_SEARCH_FAILED"
                 /\ calls'.analysis = 0 /\ calls'.followup = 0 /\ calls'.answer = 0
            ELSE pc' \in {"Analyzing", "Synthesizing"} /\ result' = Unset]_vars
  /\ []((~result.success /\ result.error.code = "INITIAL_SEARCH_FAILED") =>
          /\ pc = "Failed"
          /\ allSearchResults = <<>>
          /\ calls.analysis = 0 /\ calls.followup = 0 /\ calls.answer = 0)

C6_Witness ==
  /\ pc = "Failed"
  /\ result.error.code = "INITIAL_SEARCH_FAILED"
  /\ Len(searchQueries) = MaxQueries

AnalysisFailed == analysisResponse # Unset /\ ~analysisResponse.success

\* C7: once the analysis failed, the loop is over and the run is in
\* synthesis over everything gathered; no follow-up generation or search
\* follows, and the run ends in success unless the answer generation fails.
C7_AnalysisFailureStopsLoop ==
  AnalysisFailed =>
    /\ pc \in SynthStates
    /\ stopReason = "analysis_failed"
    /\ calls.followup = currentIteration - 1
    /\ calls.search = currentIteration
    /\ SynthesisOverAll
    /\ pc = "Done" => result.success
    /\ pc = "Failed" => /\ result.error.code \in {"FINAL_GENERATION_FAILED", "ORCHESTRATION_ERROR"}
                        /\ ~answerResponse.success
    /\ (pc \in {"Done", "Failed"} /\ answerResponse.success) => result.success

C7_Witness ==
  /\ pc = "Done"
  /\ AnalysisFailed
  /\ currentIteration = 2
  /\ result.success

FollowupStop ==
  /\ followupResponse # Unset
  /\ IF followupResponse.success THEN followupResponse.data = <<>> ELSE TRUE

\* C8: once follow-up generation failed or returned no query, no follow-up
\* search is issued, the loop is over, synthesis runs over the accumulated
\* results, and the result of the run is never the generation failure.
C8_NoFollowupsStopsLoop ==
  FollowupStop =>
    /\ pc \in SynthStates
    /\ stopReason = "no_followups"
    /\ pending = <<>>
    /\ calls.search = currentIteration
    /\ SynthesisOverAll
    /\ pc = "Done" => result.success
    /\ pc = "Failed" =>
         result.error.code \in {"FINAL_GENERATION_FAILED", "NO_FINAL_RESULTS", "ORCHESTRATION_ERROR"}

C8_Witness ==
  /\ pc = "Done"
  /\ followupResponse.success
  /\ followupResponse.data = <<>>
  /\ result.success

\* C9: when every search of a follow-up round failed, the step that joins
\* the round leaves the accumulated batches and the iteration index as they
\* were and goes to synthesis; the run then ends as synthesis decides.
C9_FailedRoundKeepsBatches ==
  /\ [][(pc = "FollowupSearching" /\ pc' # "FollowupSearching" /\ AllPendingFailed) =>
          /\ allSearchResults' = allSearchResults
          /\ currentIteration' = currentIteration
          /\ pc' = "Synthesizing"
          /\ stopReason' = "no_new_results"
          /\ result' = result]_vars
  /\ [](stopReason = "no_new_results" =>
          /\ pc \in SynthStates
          /\ SynthesisOverAll
          /\ pc = "Failed" =>
               result.error.code \in {"FINAL_GENERATION_FAILED", "NO_FINAL_RESULTS", "ORCHESTRATION_ERROR"})

C9_Witness ==
  /\ pc = "Done"
  /\ stopReason = "no_new_results"
  /\ currentIteration = 2
  /\ result.success

\* the answer generation call returned an error result or empty text
AnswerGenerationFailed ==
  /\ answerOutcome.kind \notin {"not_called", "thrown"}
  /\ IF answerOutcome.kind = "ok" THEN answerOutcome.text = NoText ELSE TRUE

UnderlyingError ==
  CASE answerOutcome.kind = "ok"            -> "NO_CONTENT"
    [] answerOutcome.kind = "no_data"       -> "GENERATION_FAILED"
    [] answerOutcome.kind = "http_error"    -> answerOutcome.status
    [] answerOutcome.kind = "network_error" -> "UNKNOWN_ERROR"

\* C10: once the answer generation failed or returned empty text, the run
\* has failed with FINAL_GENERATION_FAILED, the underlying error (NO_CONTENT
\* for empty text) in its details, and has no success result.
C10_FinalGenerationFailure ==
  AnswerGenerationFailed =>
    /\ pc = "Failed"
    /\ ~result.success
    /\ result.error.code = "FINAL_GENERATION_FAILED"
    /\ result.error.details = UnderlyingError

C10_Witness ==
  /\ pc = "Failed"
  /\ answerOutcome.kind = "ok"
  /\ answerOutcome.text = NoText
  /\ currentIteration = MaxIterations
  /\ result.error.details = "NO_CONTENT"

\* the successful batches of the settled fan-out, in query order
SettledBatches ==
  LET fulfilled == SelectSeq(pending, LAMBDA p : p.kind = "ok")
  IN [i \in 1..Len(fulfilled) |-> fulfilled[i].data]

\* C11: the sources of a successful run are those of aggregateResults over
\* the accumulated batches, and the accumulated batches are the successful
\* initial batches followed, round by round, by the successful batches of
\* every follow-up round, the one that ends in diminishing returns included.
C11_SourcesFromAllBatches ==
  /\ [](pc = "Done" =>
          result.data.sources
            = extractSources(aggregateResults(allSearchResults, config)))
  /\ [][allSearchResults' =
          IF pc \in InitialSearchPcs /\ pc' # pc
            THEN SettledBatches
            ELSE IF pc = "FollowupSearching" /\ pc' # pc
              THEN allSearchResults \o SettledBatches
              ELSE allSearchResults]_vars

C11_Witness ==
  /\ pc = "Done"
  /\ stopReason = "diminishing_returns"
  /\ Len(allSearchResults) = 3
  /\ Len(result.data.sources) = 2
  /\ result.data.sources[2].url = allSearchResults[3].items[1].link

QueryGenerationFailed == queryGenResponse # Unset /\ ~queryGenResponse.success

QueryGenerationCodes ==
  {"QUERY_GENERATION_FAILED", "NO_QUERIES_GENERATED", "QUERY_GENERATION_ERROR"}

\* C12: once the initial query generation failed, by an error result or by
\* an exception, the run goes on to the initial search with exactly one
\* query, the original query as given, and never ends with the generation
\* failure as its result; every step search() takes from the query
\* generation (a step that leaves this.config alone) issues the initial
\* search.
C12_QueryGenerationFallback ==
  /\ [](QueryGenerationFailed =>
          /\ searchQueries = <<OriginalQuery>>
          /\ pc # "GeneratingQueries"
          /\ calls.search >= 1
          /\ pc = "Searching" => Len(pending) = 1
          /\ pc = "Failed" => result.error.code \notin QueryGenerationCodes)
  /\ [][(pc = "GeneratingQueries" /\ config' = config)
          => pc' = "Searching" /\ result' = Unset]_vars

C12_Witness ==
  /\ pc = "Done"
  /\ QueryGenerationFailed
  /\ queryGenResponse.error.code = "QUERY_GENERATION_ERROR"
  /\ Len(allSearchResults) = 1

(***************************************************************************)
(* Methods called on their own.  args holds the inputs of the call (its    *)
(* arguments and the replies of the services it uses), returned the value  *)
(* it returns; search() itself is not running.                             *)
(***************************************************************************)
CallConfigs ==
  { c \in Configs : /\ c.enableQueryGeneration
                    /\ ~c.enableIterativeSearch
                    /\ c.maxSearchIterations = 0 }

SeqsUpTo(S, n) == UNION { [1..k -> S] : k \in 0..n }

\* the variables of search(), as they are before a run
SearchNotRunning ==
  /\ queryGenResponse = Unset
  /\ allSearchResults = <<>>
  /\ currentIteration = 1
  /\ analysisResponse = Unset
  /\ followupResponse = Unset
  /\ aggregatedResults = SearchResponse(<<>>)
  /\ answerOutcome = NoCall
  /\ answerResponse = Unset
  /\ result = Unset
  /\ stopReason = "none"
  /\ calls = NoCalls

searchVars ==
  <<config, queryGenResponse, allSearchResults, currentIteration,
    analysisResponse, followupResponse, aggregatedResults, answerOutcome,
    answerResponse, result, stopReason, calls>>

(***************************************************************************)
(* searchMultipleQueries(queries, context): one search per query, issued   *)
(* together; the search client answers a query with args[query].           *)
(***************************************************************************)
FanOutBodies == {"q1", "q2", "q3"}

InitFanOut ==
  /\ config \in CallConfigs
  /\ pc = "FanOut"
  /\ searchQueries \in { [i \in 1..Len(bs) |-> QueryStr(bs[i])] :
                           bs \in SeqsUpTo(FanOutBodies, MaxQueries) }
  /\ args \in [FanOutBodies -> PromiseOutcomes]
  /\ pending = IssueSearches(searchQueries)
  /\ returned = <<>>
  /\ SearchNotRunning

\* the search promise of query i settles
SettleQuery(i) ==
  /\ pc = "FanOut"
  /\ i \in 1..Len(pending)
  /\ pending[i] = Pending
  /\ pending' = [pending EXCEPT ![i] = args[searchQueries[i].body]]
  /\ UNCHANGED <<pc, searchQueries, args, returned, searchVars>>

\* Promise.allSettled resolves; results.map builds the returned array
FanOutReturns ==
  /\ pc = "FanOut"
  /\ AllSettled
  /\ returned' = searchMultipleQueries(pending)
  /\ pc' = "FanOutReturned"
  /\ UNCHANGED <<searchQueries, pending, args, searchVars>>

NextFanOut ==
  \/ \E i \in 1..MaxQueries : SettleQuery(i)
  \/ FanOutReturns

SpecFanOut == InitFanOut /\ [][NextFanOut]_vars

\* C13: searchMultipleQueries returns one outcome per query, in query
\* order: outcome i is the reply to query i, passed through when the client
\* resolved and an INDIVIDUAL_SEARCH_FAILED error when its promise was
\* rejected; settling one promise leaves every other promise as it was.
C13_OutcomePerQueryInOrder ==
  /\ [](pc = "FanOutReturned" =>
          /\ Len(returned) = Len(searchQueries)
          /\ \A i \in 1..Len(searchQueries) :
               LET reply == args[searchQueries[i].body] IN
                 CASE reply.kind = "ok" ->
                        returned[i].success /\ returned[i].data = reply.data
                   [] reply.kind = "http_error" ->
                        ~returned[i].success
                          /\ returned[i].error.code = reply.status
                   [] reply.kind = "network_error" ->
                        ~returned[i].success
                          /\ returned[i].error.code = "UNKNOWN_ERROR"
                   [] reply.kind = "rejected" ->
                        ~returned[i].success
                          /\ returned[i].error.code = "INDIVIDUAL_SEARCH_FAILED")
  /\ [][(pc = "FanOut" /\ pc' = "FanOut") =>
          /\ Len(pending') = Len(pending)
          /\ \A j \in 1..Len(pending) :
               pending[j] # Pending => pending'[j] = pending[j]]_vars

C13_Witness ==
  /\ pc = "FanOutReturned"
  /\ Len(returned) = MaxQueries
  /\ ~returned[1].success
  /\ returned[1].error.code = "INDIVIDUAL_SEARCH_FAILED"
  /\ returned[2].success
  /\ returned[2].data.items # <<>>

SearchPcs == {"Searching", "SingleSearch", "FollowupSearching"}

SomePending == \E i \in 1..Len(pending) : pending[i] = Pending

\* the locals of search() other than the promises awaited
runLocals ==
  <<queryGenResponse, searchQueries, allSearchResults, currentIteration,
    analysisResponse, followupResponse, aggregatedResults, answerOutcome,
    answerResponse, result, stopReason, calls>>

\* C14: while a query of a search batch has not settled, search() does
\* nothing but wait, in whatever order the queries complete; searches are
\* in flight only in the search steps, and a follow-up round is searched
\* only after the analysis and the follow-up generation of its iteration
\* have returned, one round per iteration.
C14_JoinAllThenSequential ==
  /\ [][SomePending =>
          /\ pc' = pc
          /\ Len(pending') = Len(pending)
          /\ runLocals' = runLocals]_vars
  /\ [](pending # <<>> => pc \in SearchPcs)
  /\ [](pc = "Analyzing" =>
          /\ calls.analysis = currentIteration
          /\ calls.search = currentIteration)
  /\ [](pc = "FollowupSearching" =>
          /\ analysisResponse.success
          /\ followupResponse.success
          /\ calls.analysis = currentIteration
          /\ calls.followup = currentIteration
          /\ calls.search = currentIteration + 1)

C14_Witness ==
  /\ pc = "FollowupSearching"
  /\ currentIteration = 2
  /\ Len(pending) = 2
  /\ pending[1] = Pending
  /\ pending[2].kind = "ok"

(***************************************************************************)
(* aggregateResults(searchResponses) called on a list of batches (args),   *)
(* then on the single batch it returned.                                   *)
(***************************************************************************)
\* an item of a batch: the same link may come with different titles
BatchItems == { Item(u, t) : u \in Urls, t \in 1..2 }

Batches == { SearchResponse(is) : is \in SeqsUpTo(BatchItems, 2) }

InitAggregate ==
  /\ config \in CallConfigs
  /\ pc = "Aggregate"
  /\ args \in SeqsUpTo(Batches, MaxQueries)
  /\ returned = <<>>
  /\ searchQueries = <<>>
  /\ pending = <<>>
  /\ SearchNotRunning

Aggregate ==
  /\ pc = "Aggregate"
  /\ returned' = <<aggregateResults(args, config)>>
  /\ pc' = "Aggregated"
  /\ UNCHANGED <<searchQueries, pending, args, searchVars>>

Reaggregate ==
  /\ pc = "Aggregated"
  /\ returned' = Append(returned, aggregateResults(<<returned[1]>>, config))
  /\ pc' = "Reaggregated"
  /\ UNCHANGED <<searchQueries, pending, args, searchVars>>

NextAggregate == Aggregate \/ Reaggregate

SpecAggregate == InitAggregate /\ [][NextAggregate]_vars

\* C15: no two items of the output of aggregateResults have the same link.
C15_UniqueLinks ==
  pc \in {"Aggregated", "Reaggregated"} =>
    \A i, j \in 1..Len(returned[1].items) :
      i # j => returned[1].items[i].link # returned[1].items[j].link

C15_Witness ==
  /\ pc = "Aggregated"
  /\ Len(args) = 2
  /\ Len(args[1].items) = 2
  /\ args[1].items[1].link = args[1].items[2].link
  /\ args[2].items = args[1].items
  /\ Len(returned[1].items) = 1

\* the items of the input batches, in batch order then item order
InputItems == FlatItems(args)

InputLinks == { InputItems[p].link : p \in 1..Len(InputItems) }

\* the position in the input of the first item with the given link
FirstPosition(link) ==
  CHOOSE p \in 1..Len(InputItems) :
    /\ InputItems[p].link = link
    /\ \A q \in 1..(p - 1) : InputItems[q].link # link

\* the number of distinct links met in the input up to position p
DistinctUpTo(p) == Cardinality({ InputItems[q].link : q \in 1..p })

\* C16: every item of the output is the first item of the input with its
\* link, title included, and the items of the output are in the order of
\* those first occurrences; batches [a,b] and [b,c] give [a,b,c].
C16_FirstOccurrenceKept ==
  pc \in {"Aggregated", "Reaggregated"} =>
    LET out == returned[1].items IN
      /\ \A k \in 1..Len(out) :
           /\ out[k].link \in InputLinks
           /\ out[k] = InputItems[FirstPosition(out[k].link)]
      /\ \A k, l \in 1..Len(out) :
           k < l => FirstPosition(out[k].link) < FirstPosition(out[l].link)
      /\ (/\ Len(args) = 2
          /\ args[1].items = <<Item(1, 1), Item(2, 1)>>
          /\ args[2].items = <<Item(2, 2), Item(3, 1)>>
          /\ config.maxSearchResults >= 3)
         => out = <<Item(1, 1), Item(2, 1), Item(3, 1)>>

C16_Witness ==
  /\ pc = "Aggregated"
  /\ Len(args) = 2
  /\ args[1].items = <<Item(1, 1), Item(2, 1)>>
  /\ args[2].items = <<Item(2, 2), Item(3, 1)>>
  /\ returned[1].items = <<Item(1, 1), Item(2, 1), Item(3, 1)>>

\* C17: the output of aggregateResults has at most maxSearchResults items:
\* as many as there are distinct links in the input when those are no more
\* than maxSearchResults, else exactly maxSearchResults, and its k-th item
\* carries the k-th distinct link of the input.
C17_CapRespected ==
  pc \in {"Aggregated", "Reaggregated"} =>
    LET out == returned[1].items IN
      /\ Len(out) <= config.maxSearchResults
      /\ Len(out) = Min(Cardinality(InputLinks), config.maxSearchResults)
      /\ \A k \in 1..Len(out) :
           /\ out[k].link \in InputLinks
           /\ DistinctUpTo(FirstPosition(out[k].link)) = k

C17_Witness ==
  /\ pc = "Aggregated"
  /\ Cardinality(InputLinks) > config.maxSearchResults
  /\ Len(returned[1].items) = config.maxSearchResults
  /\ InputItems[1].link = InputItems[2].link

\* C18: aggregating the single batch that aggregateResults returned gives
\* the same item sequence again.
C18_Idempotent ==
  pc = "Reaggregated" => returned[2].items = returned[1].items

C18_Witness ==
  /\ pc = "Reaggregated"
  /\ Len(InputItems) > Len(returned[1].items)
  /\ Len(returned[2].items) = config.maxSearchResults
  /\ Cardinality(InputLinks) > config.maxSearchResults

(***************************************************************************)
(* analyzeSearchResults called on its own: args holds the batch list it is *)
(* given and the reply the generation service has for it; returned         *)
(* receives the result.  The method is at "AnalysisGenerating" while its   *)
(* generateContent call is in flight.                                      *)
(***************************************************************************)
AnalyzeInputs ==
  { [i \in 1..Len(ls) |-> SearchResponse(ls[i])] : ls \in SeqsUpTo(ItemLists, MaxQueries) }

\* payloads whose scores are out of range, absent or not numbers
ScoreValues == {Num(-10), Num(0), Num(150), Missing, Str, Bool(TRUE), Arr(<<"gap">>)}

ScorePayloads ==
  [ completeness    : ScoreValues,
    informationGaps : {Str},
    gapCategories   : {GapCategories(Arr(<<"fact">>), Str, Missing, Arr(<<"depth">>))},
    followupTopics  : {Arr(<<"topic">>)},
    confidenceLevel : ScoreValues,
    needsMoreSearch : {Str} ]

AnalyzeOutcomes ==
  AnalysisOutcomes \cup { TextOutcome([kind |-> "malformed"]) }
    \cup { TextOutcome([kind |-> "json", payload |-> p]) : p \in ScorePayloads }

InitAnalyze ==
  /\ config \in CallConfigs
  /\ pc = "Analyze"
  /\ args \in [searchResults : AnalyzeInputs, outcome : AnalyzeOutcomes]
  /\ returned = <<>>
  /\ searchQueries = <<>>
  /\ pending = <<>>
  /\ SearchNotRunning

\* the guards of lines 867 and 892: return at once or call the service
AnalyzeEntry ==
  /\ pc = "Analyze"
  /\ IF AnalysisCallsService(args.searchResults)
       THEN /\ pc' = "AnalysisGenerating"
            /\ UNCHANGED returned
       ELSE /\ returned' = <<analyzeSearchResults(args.searchResults, NoCall)>>
            /\ pc' = "Analyzed"
  /\ UNCHANGED <<searchQueries, pending, args, searchVars>>

\* the generateContent call resolves and the method returns
AnalysisGenerated ==
  /\ pc = "AnalysisGenerating"
  /\ returned' = <<analyzeSearchResults(args.searchResults, args.outcome)>>
  /\ pc' = "Analyzed"
  /\ UNCHANGED <<searchQueries, pending, args, searchVars>>

NextAnalyze == AnalyzeEntry \/ AnalysisGenerated

SpecAnalyze == InitAnalyze /\ [][NextAnalyze]_vars

\* C19: given an empty batch list, analyzeSearchResults never reaches its
\* generateContent call and returns a success with completeness 0,
\* needsMoreSearch true and exactly one information gap.
C19_EmptyBatchListAnalysis ==
  args.searchResults = <<>> =>
    /\ pc # "AnalysisGenerating"
    /\ pc = "Analyzed" =>
         /\ returned[1].success
         /\ returned[1].data.completeness = 0
         /\ returned[1].data.needsMoreSearch = TRUE
         /\ Len(returned[1].data.informationGaps) = 1

C19_Witness ==
  /\ pc = "Analyzed"
  /\ args.searchResults = <<>>
  /\ args.outcome \in HttpFailures
  /\ returned[1].success
  /\ returned[1].data.completeness = 0

\* the generation service answered with non-empty text that holds no JSON
\* block or a block that does not parse
UnparsableReply ==
  /\ args.outcome.kind = "ok"
  /\ args.outcome.text.kind \in {"prose", "malformed"}

\* C20: when the generation service is called and answers with non-empty
\* text that holds no JSON block, or one that does not parse,
\* analyzeSearchResults returns a success carrying completeness 50,
\* confidenceLevel 30, needsMoreSearch true and exactly one information gap.
C20_UnparsableReplyFallback ==
  (pc = "Analyzed" /\ AllContent(args.searchResults) # <<>> /\ UnparsableReply) =>
    /\ returned[1].success
    /\ returned[1].data.completeness = 50
    /\ returned[1].data.confidenceLevel = 30
    /\ returned[1].data.needsMoreSearch = TRUE
    /\ Len(returned[1].data.informationGaps) = 1

C20_Witness ==
  /\ pc = "Analyzed"
  /\ Len(args.searchResults) = MaxQueries
  /\ AllContent(args.searchResults) # <<>>
  /\ args.outcome = TextOutcome([kind |-> "malformed"])
  /\ returned[1].success
  /\ returned[1].data.completeness = 50

\* a score is a number of [0,100]
WithinRange(score) == Geq(score, 0) /\ Geq(100, score)

\* C21: every analysis that analyzeSearchResults returns has completeness
\* and confidenceLevel within [0,100], whatever the payload carried there.
C21_ScoresWithinRange ==
  (pc = "Analyzed" /\ returned[1].success) =>
    /\ WithinRange(returned[1].data.completeness)
    /\ WithinRange(returned[1].data.confidenceLevel)

(***************************************************************************)
(* generateFollowupQueries called on its own: args holds the analysis it   *)
(* is given and the reply the generation service has for it; returned      *)
(* receives the result.  The method is at "FollowupGenerating" while its   *)
(* generateContent call is in flight.                                      *)
(***************************************************************************)
FollowupConfigs ==
  { [c EXCEPT !.maxFollowupQueries = n] :
      c \in { d \in CallConfigs : d.maxSearchResults = DefaultMaxSearchResults },
      n \in 0..MaxQueries }

FollowupAnalyses ==
  { [completeness    |-> FallbackCompleteness,
     informationGaps |-> gaps,
     gapCategories   |-> GapCategories(factual, <<>>, other, other),
     followupTopics  |-> <<"q1">>,
     confidenceLevel |-> FallbackConfidence,
     needsMoreSearch |-> needs] :
      gaps \in {<<>>, <<"gap">>}, factual \in {<<>>, <<"fact">>},
      other \in {<<>>, <<"gap">>}, needs \in BOOLEAN }

FollowupLines ==
  { Line(TRUE, "q1", TRUE), Line(TRUE, "q2", TRUE), Line(TRUE, "q4", TRUE),
    Line(TRUE, "orig", TRUE),
    Line(FALSE, "q1", TRUE), Line(FALSE, "q2", TRUE),
    Line(FALSE, "orig", TRUE), Indented(Line(FALSE, "orig", TRUE)),
    Line(FALSE, "q1", FALSE) }

FollowupOutcomes ==
  HttpFailures \cup {TextOutcome(NoText), [kind |-> "thrown"]}
    \cup { TextOutcome([kind |-> "lines", lines |-> ls]) :
             ls \in SeqsUpTo(FollowupLines, MaxQueries + 1) }

InitFollowup ==
  /\ config \in FollowupConfigs
  /\ pc = "Followup"
  /\ args \in [analysis : FollowupAnalyses, outcome : FollowupOutcomes]
  /\ returned = <<>>
  /\ searchQueries = <<>>
  /\ pending = <<>>
  /\ SearchNotRunning

\* the guard of line 1093: return at once or call the service
FollowupEntry ==
  /\ pc = "Followup"
  /\ IF FollowupCallsService(args.analysis)
       THEN /\ pc' = "FollowupGenerating"
            /\ UNCHANGED returned
       ELSE /\ returned' = <<generateFollowupQueries(args.analysis, NoCall, config)>>
            /\ pc' = "FollowupReturned"
  /\ UNCHANGED <<searchQueries, pending, args, searchVars>>

\* the generateContent call resolves and the method returns
FollowupGenerated ==
  /\ pc = "FollowupGenerating"
  /\ returned' = <<generateFollowupQueries(args.analysis, args.outcome, config)>>
  /\ pc' = "FollowupReturned"
  /\ UNCHANGED <<searchQueries, pending, args, searchVars>>

NextFollowup == FollowupEntry \/ FollowupGenerated

SpecFollowup == InitFollowup /\ [][NextFollowup]_vars

\* C22: given an analysis with needsMoreSearch false or without information
\* gaps, generateFollowupQueries never reaches its generateContent call and
\* returns a success with an empty sequence.
C22_StopSignalShortCircuit ==
  (~args.analysis.needsMoreSearch \/ args.analysis.informationGaps = <<>>) =>
    /\ pc # "FollowupGenerating"
    /\ pc = "FollowupReturned" => returned[1] = Ok(<<>>)

C22_Witness ==
  /\ pc = "FollowupReturned"
  /\ args.analysis.needsMoreSearch
  /\ args.analysis.informationGaps = <<>>
  /\ args.outcome.kind = "ok"
  /\ args.outcome.text # NoText
  /\ Len(args.outcome.text.lines) = MaxQueries
  /\ returned[1] = Ok(<<>>)

\* generateFollowupQueries returned what it parsed from a reply
FollowupsParsed ==
  /\ pc = "FollowupReturned"
  /\ FollowupCallsService(args.analysis)
  /\ returned[1].success

\* the candidate queries of the reply in parse order, each with its score:
\* the numbered lines, or every meaningful line when no line is numbered
Candidates ==
  LET lines    == args.outcome.text.lines
      numbered == ScoredNumbered(lines, args.analysis)
      free     == MeaningfulLines(lines)
  IN IF numbered # <<>> THEN numbered
     ELSE [i \in 1..Len(free) |->
             [query |-> Trim(free[i]),
              priority |-> calculateQueryPriority(free[i], args.analysis)]]

\* candidate i comes before candidate j in the ranking
RankedBefore(i, j) ==
  \/ Candidates[i].priority > Candidates[j].priority
  \/ Candidates[i].priority = Candidates[j].priority /\ i < j

\* out lists the candidates at the positions pos, best first, and no
\* candidate left out is ranked before a listed one
IsTopRanked(out, pos) ==
  /\ \A k \in 1..Len(out) : out[k] = Candidates[pos[k]].query
  /\ \A k, l \in 1..Len(out) : k < l => RankedBefore(pos[k], pos[l])
  /\ \A j \in 1..Len(Candidates) :
       (\A k \in 1..Len(out) : pos[k] # j) =>
         \A k \in 1..Len(out) : RankedBefore(pos[k], j)

\* C23: the queries generateFollowupQueries returns are the candidates
\* parsed from the reply sorted by descending score, equal scores in parse
\* order, cut to maxFollowupQueries; no candidate left out scores strictly
\* higher than a returned one.
C23_SortedByPriorityThenCut ==
  FollowupsParsed =>
    /\ Len(returned[1].data) = Min(Len(Candidates), config.maxFollowupQueries)
    /\ \E pos \in [1..Len(returned[1].data) -> 1..Len(Candidates)] :
         IsTopRanked(returned[1].data, pos)

\* the query contains one of the factual keywords
HasFactualKeyword(query) == "factual" \in BodyKeywords(query.body)

\* what the query scores on everything but its factual keyword
ScoreApartFromFactual(query) ==
  calculateQueryPriority(query, [args.analysis EXCEPT !.gapCategories.factual = <<>>])

\* C24 as stated: of two candidate queries that are both returned, one with
\* a factual keyword and one without, the one with the keyword comes first
\* when the analysis has factual gaps.
C24_FactualAlwaysFirst ==
  (/\ FollowupsParsed
   /\ args.analysis.gapCategories.factual # <<>>
   /\ Len(Candidates) = 2
   /\ Len(returned[1].data) = 2) =>
    \A i, j \in 1..2 :
      (HasFactualKeyword(returned[1].data[i]) /\ ~HasFactualKeyword(returned[1].data[j]))
        => i < j

\* C24 amended: of two returned queries, one with a factual keyword and one
\* without, the one with the keyword comes first when the analysis has
\* factual gaps and the keyword query scores at least as much as the other
\* on everything else.
C24_FactualFirstOtherwiseEqual ==
  (FollowupsParsed /\ args.analysis.gapCategories.factual # <<>>) =>
    \A i, j \in 1..Len(returned[1].data) :
      (/\ HasFactualKeyword(returned[1].data[i])
       /\ ~HasFactualKeyword(returned[1].data[j])
       /\ ScoreApartFromFactual(returned[1].data[i])
            >= ScoreApartFromFactual(returned[1].data[j]))
        => i < j

\* the reply lists a query without a factual keyword first and one with a
\* factual keyword second; the two score the same on everything else, and
\* the keyword query is returned first
C24_Witness ==
  /\ FollowupsParsed
  /\ args.analysis.gapCategories.factual # <<>>
  /\ Len(args.outcome.text.lines) = 2
  /\ args.outcome.text.lines[1] = Line(TRUE, "q4", TRUE)
  /\ args.outcome.text.lines[2] = Line(TRUE, "q2", TRUE)
  /\ HasFactualKeyword(QueryStr("q2")) /\ ~HasFactualKeyword(QueryStr("q4"))
  /\ ScoreApartFromFactual(QueryStr("q2")) >= ScoreApartFromFactual(QueryStr("q4"))
  /\ returned[1].data = <<QueryStr("q2"), QueryStr("q4")>>

\* C25: the queries generateFollowupQueries returns never include the
\* original query, whether the reply is parsed as a numbered list or
\* through the free-line fallback.
C25_OriginalQueryAbsent ==
  FollowupsParsed =>
    \A i \in 1..Len(returned[1].data) : returned[1].data[i] # OriginalQuery

(***************************************************************************)
(* generateSearchQueries called on its own: args holds the outcome of its  *)
(* generateContent call; returned receives the result.  The method is at   *)
(* "GenerateAwaiting" while the call is in flight; it reads                *)
(* maxGeneratedQueries when it parses the reply, after the await, so that  *)
(* an updateConfiguration call made in between decides the cap.            *)
(***************************************************************************)
GenerateConfigs ==
  { [c EXCEPT !.maxGeneratedQueries = n] :
      c \in { d \in CallConfigs : d.maxSearchResults = DefaultMaxSearchResults },
      n \in 0..MaxQueries }

GenerateLines ==
  { Line(TRUE, "q1", TRUE), Line(TRUE, "q2", TRUE), Line(TRUE, "q3", TRUE),
    Line(TRUE, "orig", TRUE),
    Line(FALSE, "q1", TRUE), Line(FALSE, "q2", TRUE),
    Line(FALSE, "orig", TRUE), Indented(Line(FALSE, "orig", TRUE)),
    Line(FALSE, "q1", FALSE) }

GenerateOutcomes ==
  HttpFailures \cup {TextOutcome(NoText), [kind |-> "thrown"]}
    \cup { TextOutcome([kind |-> "lines", lines |-> ls]) :
             ls \in SeqsUpTo(GenerateLines, MaxQueries + 1) }

InitGenerate ==
  /\ config \in GenerateConfigs
  /\ pc = "Generate"
  /\ args \in [outcome : GenerateOutcomes]
  /\ returned = <<>>
  /\ searchQueries = <<>>
  /\ pending = <<>>
  /\ SearchNotRunning

\* the values updateConfiguration is given for maxGeneratedQueries
GeneratePatches == { [maxGeneratedQueries |-> n] : n \in 0..MaxQueries }

\* the prompt is built and generateContent is called: the method awaits
GenerateCalled ==
  /\ pc = "Generate"
  /\ pc' = "GenerateAwaiting"
  /\ UNCHANGED <<returned, searchQueries, pending, args, searchVars>>

\* the generateContent call settles: the reply is parsed with the
\* configuration of that moment and the method returns
GenerateReturns ==
  /\ pc = "GenerateAwaiting"
  /\ returned' = <<generateSearchQueries(args.outcome, config)>>
  /\ pc' = "GenerateReturned"
  /\ UNCHANGED <<searchQueries, pending, args, searchVars>>

NextGenerate ==
  \/ GenerateCalled
  \/ GenerateReturns
  \/ \E patch \in GeneratePatches : updateConfiguration(patch)

SpecGenerate == InitGenerate /\ [][NextGenerate]_vars

\* the generation service answered with text that is not empty
RepliedWithText == args.outcome.kind = "ok" /\ args.outcome.text # NoText

\* no line of the reply gives a query: none is a numbered line with a text
\* other than the original query, none a meaningful line other than it
NothingUsable ==
  \A i \in 1..Len(args.outcome.text.lines) :
    LET line == args.outcome.text.lines[i] IN
      /\ ~(MatchesNumbered(line) /\ QueryStr(line.body) # OriginalQuery)
      /\ ~(line.meaningful /\ LineText(line) # OriginalQuery)

\* C26 as stated: whatever the generation call gives, generateSearchQueries
\* returns at least one query, and the original query alone when nothing
\* usable can be parsed.
C26_NeverZeroQueries ==
  pc = "GenerateReturned" =>
    /\ returned[1].success
    /\ Len(returned[1].data) >= 1
    /\ (RepliedWithText /\ NothingUsable) => returned[1].data = <<OriginalQuery>>

\* generateSearchQueries returns: the step from its await to its result
GenerateReturning == pc = "GenerateAwaiting" /\ pc' = "GenerateReturned"

\* C26 amended: when the generation call succeeds with text that is not
\* empty and maxGeneratedQueries, as configured when the reply is parsed, is
\* at least 1, generateSearchQueries returns at least one query, and the
\* original query alone when nothing usable can be parsed; when the call
\* fails, throws or gives empty text it returns an error and no query.  The
\* result is the one of the return, whatever the configuration becomes
\* afterwards.
C26_NonEmptyWhenParsed ==
  /\ [][GenerateReturning =>
          IF RepliedWithText
            THEN /\ returned'[1].success
                 /\ config.maxGeneratedQueries >= 1 =>
                      /\ Len(returned'[1].data) >= 1
                      /\ NothingUsable => returned'[1].data = <<OriginalQuery>>
            ELSE /\ ~returned'[1].success
                 /\ returned'[1].error.code \in QueryGenerationCodes]_vars
  /\ [][pc = "GenerateReturned" => returned' = returned /\ pc' = pc]_vars
  /\ [](pc = "GenerateReturned" <=> returned # <<>>)

C26_Witness ==
  /\ pc = "GenerateReturned"
  /\ RepliedWithText
  /\ config.maxGeneratedQueries = MaxQueries
  /\ Len(args.outcome.text.lines) = 2
  /\ args.outcome.text.lines[1] = Line(FALSE, "q1", FALSE)
  /\ args.outcome.text.lines[2] = Line(FALSE, "orig", TRUE)
  /\ returned[1] = Ok(<<OriginalQuery>>)

\* the queries the reply holds, in reply order: those of its numbered
\* lines, or its meaningful lines when no numbered line gives one
ParsedQueries ==
  LET lines    == args.outcome.text.lines
      numbered == SelectSeq(lines, LAMBDA line :
                    MatchesNumbered(line) /\ QueryStr(line.body) # OriginalQuery)
      free     == SelectSeq(lines, LAMBDA line :
                    line.meaningful /\ LineText(line) # OriginalQuery)
  IN IF numbered # <<>>
       THEN [i \in 1..Len(numbered) |-> QueryStr(numbered[i].body)]
       ELSE [i \in 1..Len(free) |-> LineText(free[i])]

\* C27: generateSearchQueries never returns more than maxGeneratedQueries
\* queries, and when the reply holds more it returns the first
\* maxGeneratedQueries of them in reply order.  maxGeneratedQueries is the
\* value this.config has when the method returns: the one read by the
\* parser, also when updateConfiguration replaced it during the await.
C27_AtMostMaxGeneratedQueries ==
  [][(GenerateReturning /\ returned'[1].success) =>
       /\ config' = config
       /\ Len(returned'[1].data) <= config.maxGeneratedQueries
       /\ Len(ParsedQueries) > config.maxGeneratedQueries =>
            /\ Len(returned'[1].data) = config.maxGeneratedQueries
            /\ \A i \in 1..config.maxGeneratedQueries :
                 returned'[1].data[i] = ParsedQueries[i]]_vars

C27_Witness ==
  /\ pc = "GenerateReturned"
  /\ returned[1].success
  /\ config.maxGeneratedQueries = MaxQueries
  /\ Len(ParsedQueries) = MaxQueries + 1
  /\ ParsedQueries[1] # ParsedQueries[MaxQueries + 1]
  /\ Len(returned[1].data) = MaxQueries
  /\ returned[1].data[1] = QueryStr("q3")

(***************************************************************************)
(* searchStream, an async generator read by a consumer that asks for the   *)
(* next event (next()) and may stop reading at any event (return(), as a   *)
(* for await loop does on break).  The generator rests at each yield until *)
(* the consumer asks again, and at each await until the call settles.      *)
(* args holds what the collaborators do: the outcome of searchWithFocus,   *)
(* the number of chunks streamContent delivers and how it ends; returned   *)
(* is the sequence of events yielded so far.                               *)
(***************************************************************************)
Event(type, data) == [type |-> type, data |-> data]

StreamSearchOutcomes == SearchOutcomes \cup { [kind |-> "thrown"] }

StreamEnds == {"done", "thrown"}

ChunksYielded ==
  Cardinality({ i \in 1..Len(returned) : returned[i].type = "answer_chunk" })

\* changed: the streaming path generates queries first when that is enabled
StreamSearchCallsWithGeneration(cfg) ==
  IF cfg.enableQueryGeneration
    THEN [NoCalls EXCEPT !.queryGen = 1, !.search = 1]
    ELSE [NoCalls EXCEPT !.search = 1]

\* the calls made between the first event and the second: searchWithFocus
StreamSearchCalls(cfg) == [NoCalls EXCEPT !.search = 1]

\* the generator rests at a yield
YieldPcs ==
  {"StreamYieldedSearch", "StreamYieldedSources", "StreamYieldedAnswerStart",
   "StreamYieldedChunk", "StreamYieldedTerminal"}

\* changed: the failure of the stream is reported and the answer completed
FinishEventsCompletesAnyway(streamEnd) ==
  IF streamEnd = "done"
    THEN <<Event("answer_complete", "complete")>>
    ELSE <<Event("error", "GENERATION_FAILED"), Event("answer_complete", "complete")>>

\* the event after the last chunk: the for await loop ends or throws
FinishEvents(streamEnd) ==
  IF streamEnd = "done"
    THEN <<Event("answer_complete", "complete")>>
    ELSE <<Event("error", "GENERATION_FAILED")>>

streamVars ==
  <<config, queryGenResponse, searchQueries, pending, allSearchResults,
    currentIteration, analysisResponse, followupResponse, aggregatedResults,
    answerOutcome, answerResponse, result, stopReason, args>>

InitStream ==
  /\ config \in Configs
  /\ pc = "Stream"
  /\ args \in [search : StreamSearchOutcomes, chunks : 0..MaxChunks, streamEnd : StreamEnds]
  /\ returned = <<>>
  /\ searchQueries = <<>>
  /\ pending = <<>>
  /\ SearchNotRunning

\* the first next(): the generator runs to yield 'search'
StreamStart ==
  /\ pc = "Stream"
  /\ returned' = <<Event("search", "searching")>>
  /\ pc' = "StreamYieldedSearch"
  /\ UNCHANGED <<calls, streamVars>>

\* the consumer asks again: searchWithFocus is called and awaited
StreamSearchCalled ==
  /\ pc = "StreamYieldedSearch"
  /\ calls' = StreamSearchCalls(config)
  /\ pc' = "StreamSearching"
  /\ UNCHANGED <<returned, streamVars>>

\* searchWithFocus settles: yield 'sources', or yield 'error' from the
\* check or the outer catch
StreamSearchReturned ==
  /\ pc = "StreamSearching"
  /\ CASE args.search.kind = "ok" ->
            /\ returned' = Append(returned, Event("sources", extractSources(args.search.data)))
            /\ pc' = "StreamYieldedSources"
       [] args.search.kind \in {"http_error", "network_error"} ->
            /\ returned' = Append(returned, Event("error", "SEARCH_FAILED"))
            /\ pc' = "StreamYieldedTerminal"
       [] args.search.kind = "thrown" ->
            /\ returned' = Append(returned, Event("error", "STREAM_ERROR"))
            /\ pc' = "StreamYieldedTerminal"
  /\ UNCHANGED <<calls, streamVars>>

\* the consumer asks again: the content check, then yield 'error'
\* NO_RESULTS or yield 'answer_start'
StreamContentChecked ==
  /\ pc = "StreamYieldedSources"
  /\ IF extractContentForSynthesis(args.search.data) = <<>>
       THEN /\ returned' = Append(returned, Event("error", "NO_RESULTS"))
            /\ pc' = "StreamYieldedTerminal"
       ELSE /\ returned' = Append(returned, Event("answer_start", "generating"))
            /\ pc' = "StreamYieldedAnswerStart"
  /\ UNCHANGED <<calls, streamVars>>

\* the consumer asks again: streamContent is called and its first chunk
\* awaited
StreamAnswerCalled ==
  /\ pc = "StreamYieldedAnswerStart"
  /\ calls' = Called("answer")
  /\ pc' = "StreamAnswering"
  /\ UNCHANGED <<returned, streamVars>>

\* streamContent delivers a chunk: yield 'answer_chunk'
StreamChunk ==
  /\ pc = "StreamAnswering"
  /\ ChunksYielded < args.chunks
  /\ returned' = Append(returned, Event("answer_chunk", ChunksYielded + 1))
  /\ pc' = "StreamYieldedChunk"
  /\ UNCHANGED <<calls, streamVars>>

\* the consumer asks again: the next chunk is awaited
StreamChunkTaken ==
  /\ pc = "StreamYieldedChunk"
  /\ pc' = "StreamAnswering"
  /\ UNCHANGED <<returned, calls, streamVars>>

\* streamContent ends or throws: yield 'answer_complete' or 'error'
StreamFinished ==
  /\ pc = "StreamAnswering"
  /\ ChunksYielded = args.chunks
  /\ returned' = returned \o FinishEvents(args.streamEnd)
  /\ pc' = "StreamYieldedTerminal"
  /\ UNCHANGED <<calls, streamVars>>

\* the consumer asks again after the last event: the generator returns
StreamReturns ==
  /\ pc = "StreamYieldedTerminal"
  /\ pc' = "StreamEnded"
  /\ UNCHANGED <<returned, calls, streamVars>>

\* the consumer stops reading: return() before the first next() or at a
\* yield ends the generator where it rests, and nothing more is yielded
StreamAbandoned ==
  /\ pc \in YieldPcs \cup {"Stream"}
  /\ pc' = "StreamStopped"
  /\ UNCHANGED <<returned, calls, streamVars>>

NextStream ==
  \/ StreamStart
  \/ StreamSearchCalled
  \/ StreamSearchReturned
  \/ StreamContentChecked
  \/ StreamAnswerCalled
  \/ StreamChunk
  \/ StreamChunkTaken
  \/ StreamFinished
  \/ StreamReturns
  \/ StreamAbandoned
  \/ \E patch \in ConfigPatches : updateConfiguration(patch)

SpecStream == InitStream /\ [][NextStream]_vars

EventRank(type) ==
  CASE type = "search"       -> 1
    [] type = "sources"      -> 2
    [] type = "answer_start" -> 3
    [] type = "answer_chunk" -> 4
    [] OTHER                 -> 5

TerminalTypes == {"answer_complete", "error"}

\* the last event yielded is a terminal one
TerminalYielded ==
  returned # <<>> /\ returned[Len(returned)].type \in TerminalTypes

\* C28: the events of searchStream start with 'search', come in the order
\* search, sources, answer_start, answer_chunk (any number), terminal; no
\* chunk comes before answer_start; a terminal event, 'answer_complete' or
\* 'error', is the only one and the last, and nothing is yielded after it.
\* A stream read to its end ends with its terminal event; as long as none
\* has been yielded the generator is waiting to yield more, unless the
\* consumer stopped reading, who then holds a prefix of such a sequence.
C28_EventOrder ==
  /\ [](/\ pc = "Stream" => returned = <<>>
        /\ returned = <<>> => pc \in {"Stream", "StreamStopped"}
        /\ returned # <<>> => returned[1].type = "search"
        /\ \A i, j \in 1..Len(returned) :
             i < j =>
               \/ EventRank(returned[i].type) < EventRank(returned[j].type)
               \/ returned[i].type = "answer_chunk" /\ returned[j].type = "answer_chunk"
        /\ \A j \in 1..Len(returned) :
             returned[j].type = "answer_chunk" =>
               \E i \in 1..(j - 1) : returned[i].type = "answer_start"
        /\ \A i \in 1..Len(returned) :
             returned[i].type \in TerminalTypes => i = Len(returned)
        /\ pc \in {"StreamYieldedTerminal", "StreamEnded"} => TerminalYielded
        /\ TerminalYielded =>
             pc \in {"StreamYieldedTerminal", "StreamEnded", "StreamStopped"})
  /\ [][/\ TerminalYielded => returned' = returned
        /\ pc = "StreamStopped" => returned' = returned /\ pc' = pc
        /\ returned' # returned =>
             /\ Len(returned') = Len(returned) + 1
             /\ SubSeq(returned', 1, Len(returned)) = returned]_vars

\* a stream read to its end: every chunk, then the failure of the stream
C28_Witness ==
  /\ pc = "StreamEnded"
  /\ Len(returned) = 4 + MaxChunks
  /\ returned[4].type = "answer_chunk"
  /\ returned[Len(returned)] = Event("error", "GENERATION_FAILED")

\* C29: searchStream makes one search call and no query-generation,
\* analysis or follow-up generation call, whatever the configuration is or
\* is replaced with while the stream is read.  The search call is made
\* when the consumer asks for the event after 'search': none before that,
\* one from then on, and one in every stream read to its end.
C29_SinglePassStream ==
  /\ calls.queryGen = 0 /\ calls.analysis = 0 /\ calls.followup = 0
  /\ calls.search = IF pc = "StreamSearching" \/ Len(returned) >= 2 THEN 1 ELSE 0
  /\ pc = "StreamEnded" => calls.search = 1
  /\ calls.answer = IF pc = "StreamAnswering" \/ ChunksYielded >= 1
                        \/ (\E i \in 1..Len(returned) :
                              \/ returned[i].type = "answer_complete"
                              \/ /\ returned[i].type = "error"
                                 /\ returned[i].data = "GENERATION_FAILED")
                     THEN 1 ELSE 0

C29_Witness ==
  /\ pc = "StreamEnded"
  /\ config.enableIterativeSearch
  /\ config.enableQueryGeneration
  /\ config.maxSearchIterations = MaxIterations
  /\ returned[Len(returned)].type = "answer_complete"
  /\ calls.search = 1

SearchReturned == pc \in {"Done", "Failed"}

RunningPcs ==
  {"Initializing", "GeneratingQueries", "Searching", "SingleSearch", "Analyzing",
   "GeneratingFollowups", "FollowupSearching", "Synthesizing", "Answering"}

SearchErrorCodes ==
  {"INITIAL_SEARCH_FAILED", "NO_FINAL_RESULTS", "FINAL_GENERATION_FAILED",
   "ORCHESTRATION_ERROR"}

\* search() is running or has returned a tagged result: an error with a
\* code and no data, or data and no error
TaggedResult ==
  /\ pc \in RunningPcs \cup {"Done", "Failed"}
  /\ pc \in RunningPcs => result = Unset
  /\ pc = "Failed" =>
       /\ ~result.success
       /\ DOMAIN result = {"success", "error"}
       /\ result.error.code \in SearchErrorCodes
  /\ pc = "Done" =>
       /\ result.success
       /\ DOMAIN result = {"success", "data"}

\* an exception was raised inside generateSearchQueries
ThrownInQueryGeneration ==
  QueryGenerationFailed /\ queryGenResponse.error.code = "QUERY_GENERATION_ERROR"

\* an exception was raised by the answer generation call
ThrownInAnswerGeneration == answerOutcome.kind = "thrown"

\* C30 as stated: search() never throws, an exception raised at any stage
\* ends the run with an error result, and a result carries data exactly
\* when it is a success.
C30_AnyExceptionEndsInError ==
  /\ TaggedResult
  /\ (SearchReturned /\ (ThrownInQueryGeneration \/ ThrownInAnswerGeneration))
       => ~result.success

\* C30 amended: search() never throws and a result carries data exactly
\* when it is a success; an exception that reaches search() itself (the
\* single search call rejected, the answer generation call threw) ends the
\* run with ORCHESTRATION_ERROR, while an exception inside query generation
\* is turned into an error of that step and the run goes on with the
\* original query.
C30_NeverThrows ==
  /\ [](TaggedResult
        /\ (ThrownInAnswerGeneration
              => pc = "Failed" /\ result.error.code = "ORCHESTRATION_ERROR")
        /\ (ThrownInQueryGeneration
              => searchQueries = <<OriginalQuery>> /\ pc # "GeneratingQueries"))
  /\ [][(pc = "SingleSearch" /\ pc' # pc /\ pending[1].kind = "rejected")
          => pc' = "Failed" /\ result'.error.code = "ORCHESTRATION_ERROR"]_vars

C30_Witness ==
  /\ pc = "Failed"
  /\ ThrownInQueryGeneration
  /\ ThrownInAnswerGeneration
  /\ result = Err("ORCHESTRATION_ERROR", "exception")
  /\ currentIteration = MaxIterations

(***************************************************************************)
(* search() under fair scheduling: a step of the run that can be taken is  *)
(* eventually taken.  The steps of the model resume from an await, so the  *)
(* condition says that every call to the generation service or the search  *)
(* service eventually returns and that the event loop then resumes the     *)
(* run.                                                                    *)
(***************************************************************************)
\* a step of search() itself: the run never assigns this.config
RunStep == Next /\ config' = config

SpecLive == Init /\ [][Next]_vars /\ WF_vars(RunStep)

\* the run is over: search() has returned its result
Terminated == pc \in {"Done", "Failed"}

\* follow-up rounds the while condition can still admit: the ceiling in
\* force may be replaced while the run is suspended, by none larger than
\* MaxIterations
RoundsLeft ==
  IF currentIteration < MaxIterations
    THEN MaxIterations - currentIteration
    ELSE 0

\* the awaits of one pass through search(), numbered from the last one back
StepsToGo ==
  CASE pc = "Initializing"        -> 9
    [] pc = "GeneratingQueries"   -> 8
    [] pc \in InitialSearchPcs    -> 7
    [] pc = "Analyzing"           -> 6
    [] pc = "GeneratingFollowups" -> 5
    [] pc = "FollowupSearching"   -> 4
    [] pc = "Synthesizing"        -> 3
    [] pc = "Answering"           -> 2
    [] OTHER                      -> 0

\* search promises of the current fan-out that have not settled
Unsettled == Cardinality({ i \in 1..Len(pending) : pending[i] = Pending })

\* the widest fan-out of a run
FanOutWidth == Max(MaxQueries, 2)

\* what is left of the run: the rounds left, then the awaits left in the
\* current round, then the promises left in the current fan-out
WorkLeft ==
  RoundsLeft * 10 * (FanOutWidth + 1) + StepsToGo * (FanOutWidth + 1) + Unsettled

\* the run can go on as soon as the call it awaits returns, here with the
\* plainest reply of the collaborator (a search error, an empty text)
CanStep ==
  CASE pc = "Initializing"        -> ENABLED Start
    [] pc = "GeneratingQueries"   -> ENABLED QueriesGenerated(TextOutcome(NoText))
    [] pc = "SingleSearch"        ->
         IF AllSettled THEN ENABLED SingleSearchReturned
         ELSE ENABLED (\E i \in 1..MaxQueries : SettleSearch(i, [kind |-> "network_error"]))
    [] pc = "Searching"           ->
         IF AllSettled THEN ENABLED InitialSearchJoined
         ELSE ENABLED (\E i \in 1..MaxQueries : SettleSearch(i, [kind |-> "network_error"]))
    [] pc = "Analyzing"           ->
         ENABLED (\E outcome \in {NoCall, TextOutcome(NoText)} : AnalysisReturned(outcome))
    [] pc = "GeneratingFollowups" ->
         ENABLED (\E outcome \in {NoCall, TextOutcome(NoText)} : FollowupsReturned(outcome))
    [] pc = "FollowupSearching"   ->
         \* the join of the follow-up round waits for nothing but the promises
         AllSettled \/ ENABLED (\E i \in 1..MaxQueries : SettleSearch(i, [kind |-> "network_error"]))
    [] pc = "Synthesizing"        -> ENABLED Synthesize
    [] pc = "Answering"           -> ENABLED AnswerReturned(TextOutcome(NoText))
    [] OTHER                      -> FALSE

\* C31: provided every external call eventually returns, every run of
\* search() eventually reaches Done (a success result) or Failed (an error
\* result), for every configuration and every reply of the collaborators;
\* the iteration loop cannot run forever.  A run that is not over can
\* always take a step once the call it awaits returns, every step of the
\* run leaves strictly less work than there was, replacing the
\* configuration while the run waits adds no work beyond the largest
\* ceiling, the work left is never negative, and a run that is over
\* carries its tagged result: under the fairness of SpecLive every run
\* therefore ends in Done or Failed.
C31_RunTerminates ==
  /\ [](~Terminated => CanStep)
  /\ [][IF config' = config THEN WorkLeft' < WorkLeft
                            ELSE WorkLeft' = WorkLeft]_vars
  /\ [](WorkLeft >= 0)
  /\ [](Terminated => result # Unset /\ (result.success <=> pc = "Done"))

\* the same, stated directly as a property of the fair runs
RunEventuallyOver == <>Terminated

\* a run that went round the loop up to the iteration ceiling and finished
C31_Witness ==
  /\ pc = "Done"
  /\ result.success
  /\ stopReason = "max_iterations"
  /\ FollowupRounds >= 1
  /\ currentIteration = config.maxSearchIterations

(***************************************************************************)
(* Two runs of search() on one SearchOrchestrator.  JavaScript runs one    *)
(* stretch of code at a time: at an await the event loop may resume the    *)
(* other run.  The variables of the module hold the locals of the run that *)
(* is executing, args.parked the locals of the suspended one; config is    *)
(* this.config, the one object both runs read after every await and that   *)
(* updateConfiguration replaces; args.touched holds the runs that had       *)
(* started when it was replaced.                                           *)
(***************************************************************************)
\* the locals of the executing run (let searchQueries, allSearchResults,
\* currentIteration, ... and the values awaited so far)
Locals ==
  [ pc |-> pc, queryGenResponse |-> queryGenResponse, searchQueries |-> searchQueries,
    pending |-> pending, allSearchResults |-> allSearchResults,
    currentIteration |-> currentIteration, analysisResponse |-> analysisResponse,
    followupResponse |-> followupResponse, aggregatedResults |-> aggregatedResults,
    answerOutcome |-> answerOutcome, answerResponse |-> answerResponse,
    result |-> result, stopReason |-> stopReason, calls |-> calls ]

\* the locals of a run on entry to search()
FreshLocals ==
  [ pc |-> "Initializing", queryGenResponse |-> Unset, searchQueries |-> <<>>,
    pending |-> <<>>, allSearchResults |-> <<>>, currentIteration |-> 1,
    analysisResponse |-> Unset, followupResponse |-> Unset,
    aggregatedResults |-> SearchResponse(<<>>), answerOutcome |-> NoCall,
    answerResponse |-> Unset, result |-> Unset, stopReason |-> "none",
    calls |-> NoCalls ]

RunIds == {1, 2}

\* the configurations of the two-run model: iterative search with one
\* follow-up round, with and without query generation
SharedConfigs ==
  { c \in Configs : /\ c.enableIterativeSearch
                    /\ c.maxSearchIterations = 2
                    /\ c.maxSearchResults = DefaultMaxSearchResults }

\* the reply the search service gives to a search of run id: its items
\* carry the id of the run that asked
RunSearchOutcomes(id) ==
  { [kind |-> "ok", data |-> SearchResponse(<<Item(u, id)>>)] : u \in 1..2 }
    \cup { [kind |-> "network_error"] }

\* the replies of the generation service in the two-run model
RunQueryOutcomes == { TextOutcome(NoText),
                      TextOutcome([kind |-> "lines", lines |-> <<Line(TRUE, "q1", TRUE)>>]) }

RunAnalysisOutcomes ==
  { TextOutcome([kind |-> "json", payload |-> p]) :
      p \in { q \in AnalysisPayloads :
                /\ q.informationGaps = Arr(<<"gap">>)
                /\ q.needsMoreSearch = Bool(TRUE) } }

RunAnswerOutcomes == { TextOutcome(NoText), TextOutcome([kind |-> "answer"]) }

InitTwoRuns ==
  /\ config \in SharedConfigs
  /\ pc = FreshLocals.pc
  /\ SearchNotRunning
  /\ searchQueries = <<>>
  /\ pending = <<>>
  /\ args = [active |-> 1, parked |-> FreshLocals, touched |-> {}]
  /\ returned = <<>>

\* changed: the accumulated batches are a field of the orchestrator, which
\* the two runs share
SwitchSharingBatches ==
  /\ args' = [args EXCEPT !.active = 3 - args.active, !.parked = Locals]
  /\ pc' = args.parked.pc
  /\ queryGenResponse' = args.parked.queryGenResponse
  /\ searchQueries' = args.parked.searchQueries
  /\ pending' = args.parked.pending
  /\ allSearchResults' = allSearchResults
  /\ currentIteration' = args.parked.currentIteration
  /\ analysisResponse' = args.parked.analysisResponse
  /\ followupResponse' = args.parked.followupResponse
  /\ aggregatedResults' = args.parked.aggregatedResults
  /\ answerOutcome' = args.parked.answerOutcome
  /\ answerResponse' = args.parked.answerResponse
  /\ result' = args.parked.result
  /\ stopReason' = args.parked.stopReason
  /\ calls' = args.parked.calls
  /\ UNCHANGED <<config, returned>>

\* the executing run is at an await (or over, or not yet started) and the
\* event loop resumes the other run: each run finds its locals as it left
\* them
Switch ==
  /\ args' = [args EXCEPT !.active = 3 - args.active, !.parked = Locals]
  /\ pc' = args.parked.pc
  /\ queryGenResponse' = args.parked.queryGenResponse
  /\ searchQueries' = args.parked.searchQueries
  /\ pending' = args.parked.pending
  /\ allSearchResults' = args.parked.allSearchResults
  /\ currentIteration' = args.parked.currentIteration
  /\ analysisResponse' = args.parked.analysisResponse
  /\ followupResponse' = args.parked.followupResponse
  /\ aggregatedResults' = args.parked.aggregatedResults
  /\ answerOutcome' = args.parked.answerOutcome
  /\ answerResponse' = args.parked.answerResponse
  /\ result' = args.parked.result
  /\ stopReason' = args.parked.stopReason
  /\ calls' = args.parked.calls
  /\ UNCHANGED <<config, returned>>

NextTwoRuns ==
  \/ Start
  \/ \E outcome \in RunQueryOutcomes : QueriesGenerated(outcome)
  \/ \E i \in 1..2 : \E outcome \in RunSearchOutcomes(args.active) : SettleSearch(i, outcome)
  \/ InitialSearchJoined
  \/ SingleSearchReturned
  \/ \E outcome \in RunAnalysisOutcomes \cup {NoCall} : AnalysisReturned(outcome)
  \/ \E outcome \in RunQueryOutcomes \cup {NoCall} : FollowupsReturned(outcome)
  \/ FollowupSearchJoined
  \/ Synthesize
  \/ \E outcome \in RunAnswerOutcomes : AnswerReturned(outcome)
  \/ Switch
  \/ \E patch \in ConfigPatches : updateConfiguration(patch)

SpecTwoRuns == InitTwoRuns /\ [][NextTwoRuns]_vars

\* the locals of run id, executing or suspended
LocalsOf(id) == IF args.active = id THEN Locals ELSE args.parked

\* the items of the search replies run id has received and not yet merged
SettledItems(run) ==
  FlatItems(SuccessfulData(searchMultipleQueries(
    SelectSeq(run.pending, LAMBDA p : p # Pending))))

\* the iteration ceiling of run id: the configured one, or any that
\* updateConfiguration can have set since the run started
CeilingOf(id) ==
  IF id \in args.touched THEN MaxIterations ELSE config.maxSearchIterations

\* what a run on its own shows: nothing but replies to its own searches in
\* its batches, promises and sources, an iteration index that follows its
\* own follow-up rounds up to its ceiling, and a result made of its own
\* batches and of the answer it was given
AsWhenAlone(id) ==
  LET run == LocalsOf(id)
      own == FlatItems(run.allSearchResults) \o SettledItems(run)
            \o run.aggregatedResults.items
  IN /\ \A k \in 1..Len(own) : own[k].title = id
     /\ run.currentIteration \in 1..CeilingOf(id)
     /\ run.calls.search \in {run.currentIteration - 1, run.currentIteration,
                             run.currentIteration + 1}
     /\ run.currentIteration > 1 => run.calls.search >= 2
     /\ Len(run.allSearchResults) <= 2 * run.calls.search
     /\ run.pc = "Done" =>
          run.result = Ok([answer |-> run.answerResponse.data,
                           sources |-> extractSources(
                             aggregateResults(run.allSearchResults, config))])
     /\ run.pc = "Failed" => ~run.result.success
     /\ run.pc \notin {"Done", "Failed"} => run.result = Unset

\* C32: two runs of search() interleaved at any await on one orchestrator
\* do not interfere: the accumulated batches, the iteration index and the
\* result of each run depend only on its own context and on the replies to
\* its own calls, and a step of one run leaves the locals of the other as
\* they were.  this.config is the one thing the runs share: no step of a
\* run writes it, and an updateConfiguration call changes no local of
\* either run, so that each run meets what it would meet when alone.
C32_RunsDoNotInterfere ==
  /\ [](\A id \in RunIds : AsWhenAlone(id))
  /\ [][\A id \in RunIds :
          (args'.active = args.active /\ args.active # id) => LocalsOf(id)' = LocalsOf(id)]_vars
  /\ [][args'.active # args.active =>
          \A id \in RunIds : LocalsOf(id)' = LocalsOf(id)]_vars
  /\ [][IF config' # config
          THEN \A id \in RunIds : LocalsOf(id)' = LocalsOf(id)
          ELSE args'.touched = args.touched]_vars

\* both runs are in their follow-up round at the same time, each with
\* batches of its own and a settled follow-up search, after an
\* updateConfiguration call made when run 1 had started and run 2 had not
C32_Witness ==
  /\ args.touched = {1}
  /\ config.maxSearchIterations = MaxIterations
  /\ \A id \in RunIds :
       /\ LocalsOf(id).pc = "FollowupSearching"
       /\ Len(LocalsOf(id).allSearchResults) = 1
       /\ LocalsOf(id).pending[1].kind = "ok"
  /\ LocalsOf(1).allSearchResults[1].items[1].link # LocalsOf(2).pending[1].data.items[1].link

(***************************************************************************)
(* validateConfiguration: one validateApiKey call per client, joined by    *)
(* Promise.all.  args holds the outcome of each call (that of the HTTP     *)
(* exchange behind it, or its rejection), pending the two promises,        *)
(* returned the result.                                                    *)
(***************************************************************************)
\* a validateApiKey promise that was rejected
Rejected == [kind |-> "rejected"]

\* GeminiClient.validateApiKey: a test generation; any reply validates
geminiValidateApiKey(outcome) ==
  LET response == generateContent(outcome) IN
    IF response.success THEN Ok(TRUE)
    ELSE [success |-> FALSE, error |-> response.error]

\* CustomSearchClient.validateApiKey: a test search; any reply validates
searchValidateApiKey(outcome) ==
  LET searchResult == search(outcome) IN
    IF searchResult.success THEN Ok(TRUE)
    ELSE [success |-> FALSE, error |-> searchResult.error]

\* validation.success && validation.data === true
Validated(validation) == validation.success /\ validation.data = TRUE

\* changed: overall is true as soon as one service validates
validateConfigurationEither(geminiValidation, searchValidation) ==
  IF Rejected \in {geminiValidation, searchValidation}
    THEN Err("VALIDATION_ERROR", "exception")
  ELSE
  LET gemini == Validated(geminiValidation)
      customSearch == Validated(searchValidation)
  IN Ok([gemini |-> gemini, customSearch |-> customSearch,
         overall |-> gemini \/ customSearch])

\* the await of Promise.all resumes: with a rejection, in the catch; with
\* both promises fulfilled, in the body of the try
validateConfiguration(geminiValidation, searchValidation) ==
  IF Rejected \in {geminiValidation, searchValidation}
    THEN Err("VALIDATION_ERROR", "exception")
  ELSE
  LET gemini == Validated(geminiValidation)
      customSearch == Validated(searchValidation)
  IN Ok([gemini |-> gemini, customSearch |-> customSearch,
         overall |-> gemini /\ customSearch])

ValidationInputs ==
  [ gemini : HttpFailures \cup {TextOutcome(NoText), TextOutcome([kind |-> "answer"]),
                                Rejected},
    search : SearchOutcomes \cup {Rejected} ]

InitValidate ==
  /\ config \in { c \in CallConfigs : c.maxSearchResults = DefaultMaxSearchResults }
  /\ pc = "Idle"
  /\ SearchNotRunning
  /\ searchQueries = <<>>
  /\ pending = <<>>
  /\ args \in ValidationInputs
  /\ returned = <<>>

\* Promise.all([...]): both validation calls are issued
ValidateStart ==
  /\ pc = "Idle"
  /\ pc' = "Validating"
  /\ pending' = <<Pending, Pending>>
  /\ UNCHANGED <<searchVars, searchQueries, args, returned>>

\* the validation call of the generation client settles, before
\* validateConfiguration returns or, when the other call was rejected
\* first, after it
GeminiValidationSettles ==
  /\ pc \in {"Validating", "Validated"}
  /\ pending[1] = Pending
  /\ pending' = [pending EXCEPT ![1] =
                   IF args.gemini = Rejected THEN Rejected
                   ELSE geminiValidateApiKey(args.gemini)]
  /\ UNCHANGED <<searchVars, searchQueries, pc, args, returned>>

\* the validation call of the search client settles
SearchValidationSettles ==
  /\ pc \in {"Validating", "Validated"}
  /\ pending[2] = Pending
  /\ pending' = [pending EXCEPT ![2] =
                   IF args.search = Rejected THEN Rejected
                   ELSE searchValidateApiKey(args.search)]
  /\ UNCHANGED <<searchVars, searchQueries, pc, args, returned>>

\* Promise.all settles, fulfilled when both promises are and rejected as
\* soon as one is: build the result, or return the error of the catch
ValidateReturns ==
  /\ pc = "Validating"
  /\ AllSettled \/ Rejected \in {pending[1], pending[2]}
  /\ returned' = <<validateConfiguration(pending[1], pending[2])>>
  /\ pc' = "Validated"
  /\ UNCHANGED <<searchVars, searchQueries, pending, args>>

NextValidate ==
  \/ ValidateStart
  \/ GeminiValidationSettles
  \/ SearchValidationSettles
  \/ ValidateReturns

SpecValidate == InitValidate /\ [][NextValidate]_vars

\* C33 as stated: validateConfiguration makes one validation call per
\* external service and returns a success result in which the flag of each
\* service is true exactly when the validation of that service returned
\* success with data true, and overall is true exactly when both flags are;
\* a failed validation of one service leaves the flag of the other as it
\* is.
C33_AlwaysFlagsPerService ==
  /\ pc \in {"Validating", "Validated"} => Len(pending) = 2
  /\ pc = "Validated" =>
       /\ returned[1].success
       /\ returned[1].data.gemini <=> args.gemini.kind \in {"ok", "no_data"}
       /\ returned[1].data.customSearch <=> args.search.kind = "ok"
       /\ returned[1].data.overall <=>
            (returned[1].data.gemini /\ returned[1].data.customSearch)

\* a validation call of the run is rejected
ValidationRejected == Rejected \in {args.gemini, args.search}

\* C33 amended: validateConfiguration makes one validation call per
\* external service.  When neither call is rejected it returns a success
\* result in which the flag of each service is true exactly when the
\* validation of that service returned success with data true, and overall
\* is true exactly when both flags are; a failed validation of one service
\* leaves the flag of the other as it is.  When a call is rejected it
\* returns the error VALIDATION_ERROR and no flag, without waiting for the
\* other call.
C33_FlagPerService ==
  /\ pc \in {"Validating", "Validated"} => Len(pending) = 2
  /\ pc = "Validated" =>
       IF ValidationRejected
         THEN returned[1] = Err("VALIDATION_ERROR", "exception")
         ELSE /\ returned[1].success
              /\ AllSettled
              /\ returned[1].data.gemini <=> (pending[1].success /\ pending[1].data = TRUE)
              /\ returned[1].data.gemini <=> args.gemini.kind \in {"ok", "no_data"}
              /\ returned[1].data.customSearch <=> (pending[2].success /\ pending[2].data = TRUE)
              /\ returned[1].data.customSearch <=> args.search.kind = "ok"
              /\ returned[1].data.overall <=>
                   (returned[1].data.gemini /\ returned[1].data.customSearch)

\* the generation key validates, the search key does not
C33_Witness ==
  /\ pc = "Validated"
  /\ pending[1] = Ok(TRUE)
  /\ ~pending[2].success
  /\ returned = <<Ok([gemini |-> TRUE, customSearch |-> FALSE, overall |-> FALSE])>>

(***************************************************************************)
(* ApiKeyStore (lib/stores/api-keys.ts), in the browser or rendered on the *)
(* server.  args holds the store and its surroundings: whether window is   *)
(* defined, the listener Set, the subscribe calls made so far (each        *)
(* returned an unsubscribe closure over its callback; calledAt is the      *)
(* number of subscribe calls made before the latest call of the closure,   *)
(* 0 when it was never called) and the localStorage entries; returned      *)
(* holds the last operation, its return value and the callbacks it         *)
(* invoked.  Callbacks return normally.                                    *)
(***************************************************************************)
\* the most subscribe calls of a run
MaxSubscriptions == 2

Callbacks == {"f", "g"}

KeyConfigs == {"keys1", "keys2"}

\* encryptApiKey: the stored form of a key configuration
Encrypted(keys) == [cipher |-> keys]

Absent == [cipher |-> "null"]

\* one operation of the store: its return value, whether it wrote to the
\* storage and the callbacks it invoked
Operation(op, value, wrote, invoked) ==
  [op |-> op, value |-> value, wrote |-> wrote, invoked |-> invoked]

\* this.listeners.forEach(callback => callback())
notifyListeners(listeners) == listeners

InitStore ==
  /\ config \in { c \in CallConfigs : c.maxSearchResults = DefaultMaxSearchResults }
  /\ pc = "Idle"
  /\ SearchNotRunning
  /\ searchQueries = <<>>
  /\ pending = <<>>
  /\ \E window \in BOOLEAN :
       args = [ window |-> window, listeners |-> {}, subscriptions |-> <<>>,
                storage |-> [keys |-> Absent, usage |-> "null", status |-> "null"] ]
  /\ returned = <<>>

StoreUnchanged == UNCHANGED <<searchVars, searchQueries, pending, pc>>

\* subscribe(callback): Set.add, and a closure that deletes the callback
Subscribe(callback) ==
  /\ Len(args.subscriptions) < MaxSubscriptions
  /\ args' = [args EXCEPT !.listeners = @ \cup {callback},
                          !.subscriptions = Append(@, [callback |-> callback,
                                                       calledAt |-> 0])]
  /\ returned' = <<Operation("subscribe", Len(args.subscriptions) + 1, FALSE, {})>>
  /\ StoreUnchanged

\* changed: the closure records the call and leaves the Set as it is
UnsubscribeKeeping(k) ==
  /\ k \in 1..Len(args.subscriptions)
  /\ args' = [args EXCEPT !.subscriptions[k].calledAt = Len(args.subscriptions)]
  /\ returned' = <<Operation("unsubscribe", FALSE, FALSE, {})>>
  /\ StoreUnchanged

\* the closure returned by the k-th subscribe call: Set.delete(callback)
Unsubscribe(k) ==
  /\ k \in 1..Len(args.subscriptions)
  /\ args' = [args EXCEPT !.listeners = @ \ {args.subscriptions[k].callback},
                          !.subscriptions[k].calledAt = Len(args.subscriptions)]
  /\ returned' = <<Operation("unsubscribe",
                             args.subscriptions[k].callback \in args.listeners, FALSE, {})>>
  /\ StoreUnchanged

\* saveApiKeys: without window false is returned; with it, encryptApiKey or
\* setItem throws and false is returned, or the encrypted keys are stored
\* and the listeners notified
SaveApiKeys(keys, stored) ==
  /\ IF args.window /\ stored
       THEN /\ args' = [args EXCEPT !.storage.keys = Encrypted(keys)]
            /\ returned' = <<Operation("saveApiKeys", TRUE, TRUE, notifyListeners(args.listeners))>>
       ELSE /\ args' = args
            /\ returned' = <<Operation("saveApiKeys", FALSE, FALSE, {})>>
  /\ StoreUnchanged

\* clearApiKeys: nothing without window; with it, remove the keys and the
\* usage, notify
ClearApiKeys ==
  /\ IF args.window
       THEN /\ args' = [args EXCEPT !.storage.keys = Absent, !.storage.usage = "null"]
            /\ returned' = <<Operation("clearApiKeys", "undefined", TRUE,
                                       notifyListeners(args.listeners))>>
       ELSE /\ args' = args
            /\ returned' = <<Operation("clearApiKeys", "undefined", FALSE, {})>>
  /\ StoreUnchanged

\* saveStatus: nothing without window; with it, setItem throws, or the
\* status is stored and the listeners are notified
SaveStatus(stored) ==
  /\ IF args.window /\ stored
       THEN /\ args' = [args EXCEPT !.storage.status = "status"]
            /\ returned' = <<Operation("saveStatus", "undefined", TRUE, notifyListeners(args.listeners))>>
       ELSE /\ args' = args
            /\ returned' = <<Operation("saveStatus", "undefined", FALSE, {})>>
  /\ StoreUnchanged

\* updateUsage: as saveStatus, for the merged usage
UpdateUsage(stored) ==
  /\ IF args.window /\ stored
       THEN /\ args' = [args EXCEPT !.storage.usage = "usage"]
            /\ returned' = <<Operation("updateUsage", "undefined", TRUE, notifyListeners(args.listeners))>>
       ELSE /\ args' = args
            /\ returned' = <<Operation("updateUsage", "undefined", FALSE, {})>>
  /\ StoreUnchanged

NextStore ==
  \/ \E callback \in Callbacks : Subscribe(callback)
  \/ \E k \in 1..MaxSubscriptions : Unsubscribe(k)
  \/ \E keys \in KeyConfigs : \E stored \in BOOLEAN : SaveApiKeys(keys, stored)
  \/ ClearApiKeys
  \/ \E stored \in BOOLEAN : SaveStatus(stored)
  \/ \E stored \in BOOLEAN : UpdateUsage(stored)

SpecStore == InitStore /\ [][NextStore]_vars

\* the last operation is one of the four that notify, and it succeeded: it
\* wrote to the storage
Notified ==
  /\ returned # <<>>
  /\ returned[1].op \in {"saveApiKeys", "clearApiKeys", "saveStatus", "updateUsage"}
  /\ returned[1].wrote

\* the subscribe calls made for a callback
SubscriptionsOf(callback) ==
  { k \in 1..Len(args.subscriptions) : args.subscriptions[k].callback = callback }

\* the callbacks registered by a subscribe call after which no unsubscribe
\* function returned for them has been called
Registered ==
  { callback \in Callbacks :
      \E j \in SubscriptionsOf(callback) :
        \A k \in SubscriptionsOf(callback) : args.subscriptions[k].calledAt < j }

\* the callbacks for which an unsubscribe function has been called, and no
\* subscribe since
Unsubscribed ==
  { callback \in Callbacks :
      \E k \in SubscriptionsOf(callback) :
        /\ args.subscriptions[k].calledAt > 0
        /\ \A j \in SubscriptionsOf(callback) : j <= args.subscriptions[k].calledAt }

\* C34: a callback registered with subscribe is invoked by every later
\* saveApiKeys, clearApiKeys, saveStatus and updateUsage that succeeds,
\* until an unsubscribe function that subscribe returned for it is called,
\* and by no store operation after that; a callback that was never
\* subscribed is invoked by none, and no other operation invokes a
\* callback.
C34_InvokedUntilUnsubscribed ==
  /\ Notified => Registered \subseteq returned[1].invoked
  /\ returned # <<>> => returned[1].invoked \cap Unsubscribed = {}
  /\ returned # <<>> => returned[1].invoked = IF Notified THEN Registered ELSE {}
  /\ (returned # <<>> /\ ~args.window) => returned[1].invoked = {}

\* in the browser f and g were subscribed, the unsubscribe function of g
\* was called, and a saveApiKeys that stored the keys invoked f alone
C34_Witness ==
  /\ args.window
  /\ Len(args.subscriptions) = 2
  /\ args.subscriptions[1] = [callback |-> "f", calledAt |-> 0]
  /\ args.subscriptions[2] = [callback |-> "g", calledAt |-> 2]
  /\ returned = <<Operation("saveApiKeys", TRUE, TRUE, {"f"})>>

(***************************************************************************)
(* search(): the place of the answer generation in a run.                  *)
(***************************************************************************)
\* C35: generateSearchAnswer is called at most once in a run of search(),
\* only after the last search and the last analysis call of the run have
\* completed, and never in a run that ends with INITIAL_SEARCH_FAILED or
\* NO_FINAL_RESULTS.
C35_AnswerOnceAndLast ==
  /\ [](calls.answer <= 1)
  /\ [](calls.answer = 1 =>
          /\ pc \in AfterAggregation
          /\ pending = <<>>
          /\ aggregatedResults = aggregateResults(allSearchResults, config))
  /\ [][calls.answer = 1 =>
          /\ calls' = calls
          /\ allSearchResults' = allSearchResults
          /\ analysisResponse' = analysisResponse
          /\ followupResponse' = followupResponse]_vars
  /\ []((pc = "Failed" /\ result.error.code \in {"INITIAL_SEARCH_FAILED", "NO_FINAL_RESULTS"})
          => calls.answer = 0 /\ answerOutcome = NoCall)

\* a run with a follow-up round and a second analysis whose answer was
\* generated at the end
C35_Witness ==
  /\ pc = "Done"
  /\ calls.answer = 1
  /\ calls.search = 2
  /\ calls.analysis = 2
  /\ answerOutcome # NoCall

(***************************************************************************)
(* calculateQueryPriority called on its own: args holds the query and the  *)
(* analysis, returned the score.                                           *)
(***************************************************************************)
GapTypes == {"factual", "verification", "depth", "contextual"}

PriorityQueries ==
  [ body : {"orig", "q1", "q3", "q4", "q5", "q6"}, prefixed : BOOLEAN, padded : BOOLEAN ]

PriorityAnalyses ==
  { [completeness    |-> FallbackCompleteness,
     informationGaps |-> gaps,
     gapCategories   |-> GapCategories(f, c, v, d),
     followupTopics  |-> topics,
     confidenceLevel |-> FallbackConfidence,
     needsMoreSearch |-> TRUE] :
      gaps \in {<<>>, <<"q5">>, <<"q5", "gap">>},
      topics \in {<<>>, <<"q1">>, <<"q1", "q1">>, <<"q6", "topic">>,
                  <<"orig additional information">>},
      f \in {<<>>, <<"fact">>}, c \in {<<>>, <<"gap">>},
      v \in {<<>>, <<"gap">>}, d \in {<<>>, <<"gap">>} }

InitPriority ==
  /\ config \in { c \in CallConfigs : c.maxSearchResults = DefaultMaxSearchResults }
  /\ pc = "Scoring"
  /\ SearchNotRunning
  /\ searchQueries = <<>>
  /\ pending = <<>>
  /\ args \in [query : PriorityQueries, analysis : PriorityAnalyses]
  /\ returned = <<>>

ScoreQuery ==
  /\ pc = "Scoring"
  /\ returned' = <<calculateQueryPriority(args.query, args.analysis)>>
  /\ pc' = "Scored"
  /\ UNCHANGED <<searchVars, searchQueries, pending, args>>

NextPriority == ScoreQuery

SpecPriority == InitPriority /\ [][NextPriority]_vars

\* the points of a gap type, as the claim lists them
GapTypePoints ==
  [factual |-> 40, verification |-> 35, depth |-> 30, contextual |-> 25]

RECURSIVE Sum(_, _)
Sum(f, S) ==
  IF S = {} THEN 0
  ELSE LET x == CHOOSE y \in S : TRUE IN f[x] + Sum(f, S \ {x})

\* the gap types the query matches: it contains a keyword of the type and
\* the analysis lists gaps of the type
MatchedTypes ==
  { t \in GapTypes : t \in BodyKeywords(args.query.body)
                      /\ Len(args.analysis.gapCategories[t]) > 0 }

\* the entries of a list of phrases the query matches: one of the two
\* strings occurs in the other
MatchingEntries(phrases) ==
  { i \in 1..Len(phrases) :
      \/ phrases[i] = args.query.body
      \/ /\ args.query = QueryStr(args.query.body)
         /\ args.query.body \in PhraseBodies(phrases[i]) }

\* the number of words of the query string: the words of its text and the
\* number that precedes it; the blanks around the string are no words
WordCount(query) == BodyWords(query.body) + (IF query.prefixed THEN 1 ELSE 0)

\* C36: the score of calculateQueryPriority is the sum of 40 / 35 / 30 / 25
\* for a factual / verification / depth / contextual keyword in the query
\* when the analysis lists gaps of that category, 15 for every matching
\* followupTopics entry, 10 for every matching informationGaps entry, 20
\* when more than one category matched, 5 for a length of 20 to 80
\* characters and 5 for a word count of 3 to 8; it is never negative.
C36_ScoreIsSumOfParts ==
  pc = "Scored" =>
    /\ returned[1] =
           Sum(GapTypePoints, MatchedTypes)
         + 15 * Cardinality(MatchingEntries(args.analysis.followupTopics))
         + 10 * Cardinality(MatchingEntries(args.analysis.informationGaps))
         + (IF Cardinality(MatchedTypes) > 1 THEN 20 ELSE 0)
         + (IF QueryLength(args.query) \in 20..80 THEN 5 ELSE 0)
         + (IF WordCount(args.query) \in 3..8 THEN 5 ELSE 0)
    /\ returned[1] >= 0

(***************************************************************************)
(* searchMultipleQueries: the search requests it issues.  args receives    *)
(* the options of the search call made for each query.                     *)
(***************************************************************************)
\* changed: the budget is divided rounding down
ResultsPerQueryFloor(queries, cfg) == cfg.maxSearchResults \div Len(queries)

\* Math.ceil(this.config.maxSearchResults / queries.length)
ResultsPerQuery(queries, cfg) ==
  LET quotient == cfg.maxSearchResults \div Len(queries)
  IN IF quotient * Len(queries) = cfg.maxSearchResults THEN quotient ELSE quotient + 1

\* queries.map(query => this.searchClient.search(query, { num, ... }))
SearchRequests(queries, cfg) ==
  [i \in 1..Len(queries) |-> [query |-> queries[i], num |-> ResultsPerQuery(queries, cfg)]]

\* the result budgets of the requests of the model
RequestConfigs ==
  { [c EXCEPT !.maxSearchResults = m] : c \in CallConfigs, m \in {1, 9, DefaultMaxSearchResults} }

InitRequests ==
  /\ config \in RequestConfigs
  /\ pc = "Mapping"
  /\ searchQueries \in { [i \in 1..Len(bs) |-> QueryStr(bs[i])] :
                           bs \in SeqsUpTo(FanOutBodies, MaxQueries + 1) \ {<<>>} }
  /\ args = <<>>
  /\ pending = <<>>
  /\ returned = <<>>
  /\ SearchNotRunning

\* the search calls are made, one per query
IssueRequests ==
  /\ pc = "Mapping"
  /\ args' = SearchRequests(searchQueries, config)
  /\ pending' = IssueSearches(searchQueries)
  /\ pc' = "FanOut"
  /\ UNCHANGED <<searchVars, searchQueries, returned>>

NextRequests == IssueRequests

SpecRequests == InitRequests /\ [][NextRequests]_vars

\* C37: for a batch of n >= 1 queries searchMultipleQueries asks for
\* ceil(maxSearchResults / n) results for every query of the batch: the
\* least number of results per query with which n queries cover the budget.
C37_BudgetSplitRoundedUp ==
  pc = "FanOut" =>
    /\ Len(args) = Len(searchQueries)
    /\ Len(pending) = Len(searchQueries)
    /\ \A i \in 1..Len(args) :
         /\ args[i].query = searchQueries[i]
         /\ args[i].num * Len(searchQueries) >= config.maxSearchResults
         /\ (args[i].num - 1) * Len(searchQueries) < config.maxSearchResults

\* three queries share a budget of 9: 3 results each
C37_Witness ==
  /\ pc = "FanOut"
  /\ Len(searchQueries) = 3
  /\ config.maxSearchResults = 9
  /\ \A i \in 1..3 : args[i].num = 3

(***************************************************************************)
(* search(): what lets the loop go on after a follow-up round, and what    *)
(* the final sources are made of.                                          *)
(***************************************************************************)
\* the follow-up round of the current state ends in this step
FollowupRoundEnds == pc = "FollowupSearching" /\ pc' # pc

\* C38: a follow-up round is followed by another analysis only if the raw
\* item count accumulated before the round is strictly smaller than the
\* deduplicated item count after the merge, which aggregateResults caps at
\* maxSearchResults; hence once the raw count accumulated is at least
\* maxSearchResults the next follow-up round is the last one, whatever it
\* finds and whatever maxSearchIterations is.
C38_RawCountBoundsGrowth ==
  /\ [][(FollowupRoundEnds /\ pc' = "Analyzing") =>
          /\ TotalItems(allSearchResults) < UniqueCount(allSearchResults')
          /\ UniqueCount(allSearchResults') <= config.maxSearchResults]_vars
  /\ [][(FollowupRoundEnds /\ TotalItems(allSearchResults) >= config.maxSearchResults) =>
          /\ pc' = "Synthesizing"
          /\ currentIteration' = currentIteration]_vars
  /\ [][(pc \in SynthStates) => (pc' \in SynthStates)]_vars

\* two items were accumulated under a cap of two; the follow-up round found
\* a link not seen before and the loop ended all the same, below the
\* iteration ceiling
C38_Witness ==
  /\ pc = "Synthesizing"
  /\ stopReason = "diminishing_returns"
  /\ config.maxSearchResults = 2
  /\ currentIteration + 1 < config.maxSearchIterations
  /\ Len(allSearchResults) = 3
  /\ \A i \in 1..3 : Len(allSearchResults[i].items) = 1
  /\ \A i, j \in 1..3 :
       i # j => allSearchResults[i].items[1].link # allSearchResults[j].items[1].link

\* the distinct links among the items of a list of batches
DistinctLinks(searchResponses) ==
  { FlatItems(searchResponses)[k].link : k \in 1..Len(FlatItems(searchResponses)) }

\* the batches accumulated first, up to the k-th
FirstBatches(k) == SubSeq(allSearchResults, 1, k)

\* C39: if the successful batches of the initial round contain at least
\* maxSearchResults distinct URLs, the sources of a successful search() are
\* those of aggregateResults over the initial batches: no item found only
\* by a follow-up round is among them, however many rounds run.  The
\* initial batches are the first batches accumulated and stay in front.
C39_InitialBatchesFillTheCap ==
  /\ [](pc = "Done" =>
          \A k \in 1..Len(allSearchResults) :
            Cardinality(DistinctLinks(FirstBatches(k))) >= config.maxSearchResults =>
              result.data.sources
                = extractSources(aggregateResults(FirstBatches(k), config)))
  /\ [][(pc \in InitialSearchPcs /\ pc' \notin InitialSearchPcs \cup {"Failed"})
          => allSearchResults' = SettledBatches]_vars
  /\ [][(pc \notin InitialSearchPcs)
          => SubSeq(allSearchResults', 1, Len(allSearchResults)) = allSearchResults]_vars

\* the two initial batches fill a cap of two; the follow-up round found a
\* third link, which is not among the sources
C39_Witness ==
  /\ pc = "Done"
  /\ config.maxSearchResults = 2
  /\ calls.search = 2
  /\ Len(allSearchResults) = 3
  /\ Cardinality(DistinctLinks(FirstBatches(2))) = 2
  /\ Cardinality(DistinctLinks(allSearchResults)) = 3
  /\ Len(result.data.sources) = 2
  /\ \A i \in 1..2 : result.data.sources[i].url = allSearchResults[i].items[1].link

\* C40: a successful result of search() has between 1 and maxSearchResults
\* sources, with pairwise distinct URLs and the indexes 1..n in aggregation
\* order; when the final aggregated set is empty, every successful batch
\* having no item, search() returns NO_FINAL_RESULTS and the answer
\* generation is not called.
C40_SourcesOfSuccess ==
  /\ [](pc = "Done" =>
          LET sources == result.data.sources IN
            /\ result.success
            /\ Len(sources) \in 1..config.maxSearchResults
            /\ Len(sources) = Len(aggregatedResults.items)
            /\ \A i \in 1..Len(sources) :
                 /\ sources[i].index = i
                 /\ sources[i].url = aggregatedResults.items[i].link
                 /\ sources[i].title = aggregatedResults.items[i].title
            /\ \A i, j \in 1..Len(sources) : i # j => sources[i].url # sources[j].url)
  /\ [][(pc = "Synthesizing" /\ pc' # pc) =>
          IF TotalItems(allSearchResults) = 0
            THEN /\ pc' = "Failed"
                 /\ result' = Err("NO_FINAL_RESULTS", "undefined")
                 /\ aggregatedResults'.items = <<>>
                 /\ calls' = calls
            ELSE /\ pc' = "Answering"
                 /\ aggregatedResults'.items # <<>>]_vars
  /\ []((pc = "Failed" /\ result.error.code = "NO_FINAL_RESULTS") =>
          calls.answer = 0 /\ answerOutcome = NoCall)

\* a success whose sources fill the cap, fewer than the items accumulated
C40_Witness ==
  /\ pc = "Done"
  /\ Len(result.data.sources) = config.maxSearchResults
  /\ TotalItems(allSearchResults) > config.maxSearchResults
  /\ Cardinality(DistinctLinks(allSearchResults)) = config.maxSearchResults
  /\ result.data.sources[2].index = 2

====
